---- MODULE Spec2Model ----
(***************************************************************************)
(* A model of sol-cloud's liveness monitoring core:                        *)
(*   - monitor.SlotHistory (Record / IsStuck / HasProgressed under a       *)
(*     mutex), called by several goroutines;                               *)
(*   - cmd.ValidatorWatcher (Run / checkAndRestart), the watch loop that   *)
(*     feeds the history and restarts a stuck validator.                   *)
(* Time is a natural-number clock `now` (one unit = one clock reading that *)
(* differs from the previous one); durations are differences of readings.  *)
(***************************************************************************)
EXTENDS Integers, Sequences, FiniteSets, TLC

(***************************************************************************)
(* Bounds of the model and constants of the program.                       *)
(***************************************************************************)
\* NewSlotHistory: maxEntries, the capacity of the history.
MaxEntries == 20
\* Record calls and environment events (a clock tick, or a Record call whose
\* slot differs from the latest one) explored per behaviour with one caller.
MaxRecords == 5
MaxEvents == 3
\* The same for the long runs of one caller, which record more slots than
\* the capacity: MaxEntries + ExtraRecords of them.
ExtraRecords == 1
MaxEventsLong == 1
\* Slot values are 0..MaxSlot.
MaxSlot == 1
\* Stuck thresholds are 0..MaxThreshold.
MaxThreshold == 1
\* Environment events explored per behaviour with concurrent callers.
MaxEventsConc == 2
\* The concurrent callers start from a history of PreLen observations and
\* make MaxRecordsConc Record calls more (together more than the capacity).
PreLen == 19
MaxRecordsConc == 3

\* checkAndRestart: the sub-timeouts of the getSlot call (10 s) and of the
\* restart call (60 s), in clock units of 10 s.
RpcTimeout == 1
RestartTimeout == 6
\* The watch loop is explored up to clock reading MaxTimeWatch, with check
\* intervals 1..MaxInterval, restart cooldowns 0..MaxCooldown and max-restarts
\* 0..MaxMaxRestarts.
MaxTimeWatch == 8
\* Environment events (a failed or slow remote call, a slow or declined
\* prompt, a slot that differs from the latest one, an interrupt) explored
\* per behaviour of the watch loop.
MaxEventsWatch == 2
MaxInterval == 2
MaxCooldown == 2
MaxMaxRestarts == 1
\* The long watch of a stalled validator: the clock's last reading, and the
\* stuck threshold in poll intervals (one more than the MaxEntries - 1
\* intervals a full history spans).
MaxTimeStall == 22
\* The health poller: the largest timeout and interval, in clock units.
MaxHealthTimeout == 3
MaxHealthInterval == 2
\* The Deploy calls made one after the other with the same config.
MaxRuns == 2
\* The clock readings a State is called at: 0..MaxTimeState.
MaxTimeState == 1
StallPolls == MaxEntries

Slots == 0..MaxSlot
Thresholds == 0..MaxThreshold
\* The goroutines that call the SlotHistory.
Procs == {1, 2}
NoProc == 0
\* The zero time.Time (lastRestartTime before any restart).
ZeroTime == 0 - 1
\* What the user may type at the confirmation prompt (after TrimSpace and
\* ToLower).
Responses == {"y", "yes", "n", ""}
\* The errors provider.Restart may return: context.Canceled,
\* context.DeadlineExceeded (both possibly wrapped), or any other error.
RestartErrors == {"canceled", "deadline", "other"}
\* The rpcURL arguments: empty, blank, and a URL.
URLs == {"", " ", "https://app.fly.dev"}
\* The reasons a probe fails for while its context is live.
ProbeErrors == {"connection refused", "unexpected status 503"}
\* The cfg.Name and cfg.Region arguments of Deploy: empty, blank, and names.
Names == {"", " ", "sol", "dev"}
Regions == {"", "ord"}
\* The combined output of flyctl deploy: none, one that names no host, and
\* two that name a host that is not <name>.fly.dev.
FlyOutputs == {"", "deployed",
               "Visit your newly deployed app at https://sol-1234.fly.dev/",
               "hostname: SOL-1234.fly.dev"}
\* The domain Railway assigns (none, or a generated one).
Domains == {"", "validator-production-1a2b.up.railway.app"}
\* The environment variables resolveAccessToken reads, in its order.
EnvNames(prov) ==
    IF prov = "fly"
    THEN {"SOL_CLOUD_FLY_ACCESS_TOKEN", "FLY_ACCESS_TOKEN", "FLY_API_TOKEN"}
    ELSE {"SOL_CLOUD_RAILWAY_TOKEN", "RAILWAY_TOKEN"}
\* The places a token is read from: p.AccessToken, the environment and the
\* credentials file. Each holds nothing, blanks, or a token of its own,
\* padded with blanks.
TokenSources == {"AccessToken", "creds"} \cup EnvNames("fly")
                    \cup EnvNames("railway")
Padded(n) == " " \o n \o " "
\* Names that match the pattern of EnsureFlyAppName.
AppNames == {"sol-cloud-1a2b3c4d", "sol-cloud-9z8y7x6w"}
TokenValues(n) == {"", " ", Padded(n)}
\* The health poller is watched until one interval after the latest deadline.
HealthHorizon == MaxHealthTimeout + MaxHealthInterval + 1

VARIABLES
    \* monitor.SlotHistory
    entries,        \* h.entries: sequence of SlotEntry [Slot, Timestamp]
    mu,             \* h.mu: the goroutine holding the mutex, or NoProc
    stuckThreshold, \* h.stuckThreshold
    \* the goroutines calling the history
    pc,             \* position of each goroutine inside its current call
    arg,            \* slot argument of the goroutine's Record call
    entry,          \* local `entry` of Record (<<>> before it is built)
    ret,            \* value returned by the goroutine's last finished call
    \* environment
    now,            \* the clock time.Now() reads
    events,         \* environment events so far
    \* cmd.ValidatorWatcher
    checkInterval,  \* w.checkInterval
    maxRestarts,    \* w.maxRestarts
    restartCooldown, \* w.restartCooldown
    autoRestart,    \* w.autoRestart
    restartCount,   \* w.restartCount
    lastRestartTime, \* w.lastRestartTime (ZeroTime before any restart)
    wpc,            \* where Run / checkAndRestart stands
    cancelled,      \* ctx is cancelled (ctx.Done() is closed)
    tickPending,    \* a tick waits in ticker.C (a channel of capacity 1)
    nextTick,       \* clock reading at which the ticker fires next
    callStart,      \* clock reading at which the pending remote call began
    \* history of the run (not program state)
    recorded,       \* every SlotEntry appended so far, in append order
    restartTimes,   \* the clock readings stored by the successful restarts
    tickLog,        \* what the current (or last) tick of the watch loop did
    cancelTime,     \* the clock reading at which ctx was cancelled
    \* providers.waitForRPCHealthy
    rpcURL,         \* the rpcURL argument
    timeout,        \* the timeout argument
    interval,       \* the interval argument
    hpc,            \* where waitForRPCHealthy stands
    ctxDone,        \* the caller's ctx is cancelled
    tickerC,        \* a tick waits in ticker.C
    tickerNext,     \* clock reading at which the ticker fires next
    lastErr,        \* local lastErr ("nil" or the reason of a failed probe)
    healthRet,      \* the error waitForRPCHealthy returned (NotReturned before)
    \* history of the call (not program state)
    probes,         \* the probes issued so far: [start, result]
    healthRetTime,  \* the clock reading at which the call returned
    \* providers.FlyProvider.Deploy / providers.RailwayProvider.Deploy
    provider,       \* "fly" or "railway"
    cfg,            \* the *Config argument
    env,            \* the machine Deploy runs on: token, CLI, file system
    dpc,            \* where Deploy stands
    deployment,     \* local deployment, the *Deployment returned
    deployErr,      \* the error returned ("nil" for none)
    token,          \* local token ("" before resolveAccessToken)
    logs,           \* the lines of the deploy step's log (strings.Builder)
    platform,       \* the provider's side: the apps and the IPs allocated
    \* history of the calls (not program state)
    answers,        \* what each remote step of the current call was answered
    effects,        \* the kinds of remote effect the current call has had
    steps,          \* the remote steps of the current call, in order
    runs,           \* the Deploy calls that have returned
    \* providers.FlyProvider.VerifyAccessToken
    verify,         \* the call: [token, pc, statusErr, ret]
    \* history of the call (not program state)
    requests,       \* the probes sent so far: [probe, token, resp]
    \* cmd.rpcCall and providers.checkRPCHealth
    rpc,            \* the call: [caller, resp, pc, err, slot, health]
    \* cmd.deployCmd, cmd.destroyCmd and config.State
    cmd,            \* the command run: [name, pc, in, err]
    state,          \* local state of RunE, the *State its methods act on
    stateFile,      \* the State persisted in the state file
    stateCall       \* the last call of a method of state (history)

callerVars == <<mu, pc, arg, entry, ret>>
watchVars == <<checkInterval, maxRestarts, restartCooldown, autoRestart,
               restartCount, lastRestartTime, wpc, cancelled, cancelTime,
               tickPending, nextTick, callStart, restartTimes, tickLog>>
healthVars == <<rpcURL, timeout, interval, hpc, ctxDone, tickerC, tickerNext,
                lastErr, healthRet, probes, healthRetTime>>
deployVars == <<provider, cfg, env, dpc, deployment, deployErr, token, logs,
                platform, answers, effects, steps, runs>>
verifyVars == <<verify, requests>>
rpcVars == <<rpc>>
cmdVars == <<cmd, state, stateFile, stateCall>>
histVars == <<entries, mu, stuckThreshold, pc, arg, entry, ret, events,
              recorded>>
\* What each part of the program leaves alone.
outsideHist == <<watchVars, healthVars, deployVars, verifyVars, rpcVars,
                 cmdVars>>
outsideWatch == <<healthVars, deployVars, verifyVars, rpcVars, cmdVars>>
outsideHealth == <<histVars, watchVars, deployVars, verifyVars, rpcVars,
                   cmdVars>>
outsideDeploy == <<now, histVars, watchVars, healthVars, verifyVars, rpcVars,
                   cmdVars>>
outsideVerify == <<now, histVars, watchVars, healthVars, deployVars, rpcVars,
                   cmdVars>>
outsideRpc == <<now, histVars, watchVars, healthVars, deployVars, verifyVars,
                cmdVars>>
outsideCmd == <<now, histVars, watchVars, healthVars, deployVars, verifyVars,
                rpcVars>>
\* What a command that calls a provider leaves alone.
outsideRun == <<now, histVars, watchVars, healthVars, verifyVars, rpcVars>>
vars == <<entries, mu, stuckThreshold, pc, arg, entry, ret, now, events,
          recorded, checkInterval, maxRestarts, restartCooldown, autoRestart,
          restartCount, lastRestartTime, wpc, cancelled, cancelTime,
          tickPending, nextTick, callStart, restartTimes, tickLog, healthVars,
          deployVars, verifyVars, rpcVars, cmdVars>>

(***************************************************************************)
(* monitor.SlotHistory: the pure parts.                                    *)
(***************************************************************************)
\* SlotEntry{Slot: slot, Timestamp: time.Now()}
SlotEntry(slot, t) == [Slot |-> slot, Timestamp |-> t]

\* h.entries = append(h.entries, entry)
AppendEntry(es, e) == Append(es, e)

\* A trim that keeps the oldest entries: h.entries[:h.maxEntries].
TrimEntriesHead(es) ==
    IF Len(es) > MaxEntries THEN SubSeq(es, 1, MaxEntries) ELSE es

\* if len(h.entries) > h.maxEntries { h.entries = h.entries[len-max:] }
TrimEntries(es) ==
    IF Len(es) > MaxEntries
    THEN SubSeq(es, Len(es) - MaxEntries + 1, Len(es))
    ELSE es

\* The backward loop with `continue` in place of `break`: every entry holding
\* the newest slot is counted, also behind a different slot.
RECURSIVE ScanBackNoBreak(_, _, _, _)
ScanBackNoBreak(es, i, first, count) ==
    IF i < 1 THEN [first |-> first, count |-> count]
    ELSE IF es[i].Slot = es[Len(es)].Slot
         THEN ScanBackNoBreak(es, i - 1, i, count + 1)
         ELSE ScanBackNoBreak(es, i - 1, first, count)

\* The backward loop of IsStuck: i runs from the newest entry down while the
\* slot equals the newest slot; first is the index firstOccurrence points to
\* (0 = nil), count the number of entries visited.
RECURSIVE ScanBack(_, _, _, _)
ScanBack(es, i, first, count) ==
    IF i >= 1 /\ es[i].Slot = es[Len(es)].Slot
    THEN ScanBack(es, i - 1, i, count + 1)
    ELSE [first |-> first, count |-> count]

\* return false, nil
NotStuck == [stuck |-> FALSE, info |-> <<>>]

\* StuckInfo built from the newest entry, the first occurrence and the count.
StuckInfo(lastEntry, firstOccurrence, count) ==
    [StuckSlot |-> lastEntry.Slot,
     FirstObservedAt |-> firstOccurrence.Timestamp,
     LastObservedAt |-> lastEntry.Timestamp,
     Duration |-> lastEntry.Timestamp - firstOccurrence.Timestamp,
     ObservationCount |-> count]

\* IsStuck asking for one observation where the code asks for two.
IsStuckOfOneObservation(es, threshold) ==
    IF Len(es) < 1 THEN NotStuck
    ELSE LET lastEntry == es[Len(es)]
             sc == ScanBack(es, Len(es), 0, 0)
         IN IF sc.first = 0 \/ sc.count < 1 THEN NotStuck
            ELSE IF lastEntry.Timestamp - es[sc.first].Timestamp < threshold
                 THEN NotStuck
                 ELSE [stuck |-> TRUE,
                       info |-> <<StuckInfo(lastEntry, es[sc.first], sc.count)>>]

\* IsStuck with `duration <= h.stuckThreshold` as the not-stuck test.
IsStuckOfStrict(es, threshold) ==
    IF Len(es) < 2 THEN NotStuck
    ELSE LET lastEntry == es[Len(es)]
             sc == ScanBack(es, Len(es), 0, 0)
         IN IF sc.first = 0 \/ sc.count < 2 THEN NotStuck
            ELSE IF lastEntry.Timestamp - es[sc.first].Timestamp <= threshold
                 THEN NotStuck
                 ELSE [stuck |-> TRUE,
                       info |-> <<StuckInfo(lastEntry, es[sc.first], sc.count)>>]

\* IsStuck without the threshold test: a repeated slot is stuck at once.
IsStuckOfNoThreshold(es, threshold) ==
    IF Len(es) < 2 THEN NotStuck
    ELSE LET lastEntry == es[Len(es)]
             sc == ScanBack(es, Len(es), 0, 0)
         IN IF sc.first = 0 \/ sc.count < 2 THEN NotStuck
            ELSE [stuck |-> TRUE,
                  info |-> <<StuckInfo(lastEntry, es[sc.first], sc.count)>>]

\* The value IsStuck computes from the buffer; info is <<>> for nil and
\* <<StuckInfo>> for a pointer to a StuckInfo.
IsStuckOf(es, threshold) ==
    IF Len(es) < 2 THEN NotStuck
    ELSE LET lastEntry == es[Len(es)]
             sc == ScanBack(es, Len(es), 0, 0)
         IN IF sc.first = 0 \/ sc.count < 2 THEN NotStuck
            ELSE LET duration == lastEntry.Timestamp - es[sc.first].Timestamp
                 IN IF duration < threshold THEN NotStuck
                    ELSE [stuck |-> TRUE,
                          info |-> <<StuckInfo(lastEntry, es[sc.first], sc.count)>>]

\* HasProgressed comparing the newest entry with the oldest one.
HasProgressedOfOldest(es) ==
    IF Len(es) < 2 THEN FALSE
    ELSE es[Len(es)].Slot # es[1].Slot

\* The value HasProgressed computes from the buffer.
HasProgressedOf(es) ==
    IF Len(es) < 2 THEN FALSE
    ELSE es[Len(es)].Slot # es[Len(es) - 1].Slot

\* The value GetLatestSlot computes from the buffer.
GetLatestSlotOf(es) == IF Len(es) = 0 THEN 0 ELSE es[Len(es)].Slot

(***************************************************************************)
(* Return values of the calls.                                             *)
(***************************************************************************)
NoRet == [op |-> "none", stuck |-> FALSE, info |-> <<>>, prog |-> FALSE]
StuckRet(r) == [op |-> "IsStuck", stuck |-> r.stuck, info |-> r.info, prog |-> FALSE]
ProgRet(b) == [op |-> "HasProgressed", stuck |-> FALSE, info |-> <<>>, prog |-> b]

\* The log of a tick that has done nothing yet.
NoTick ==
    [rpc |-> "none", stuck |-> FALSE, cooldown |-> FALSE, prompted |-> FALSE,
     response |-> "none", restart |-> "none"]

\* The ValidatorWatcher runWatch builds, before Run is called.
InitWatcherFields ==
    /\ restartCount = 0
    /\ lastRestartTime = ZeroTime
    /\ wpc = "select"
    /\ cancelled = FALSE
    /\ cancelTime = ZeroTime
    /\ tickPending = FALSE
    /\ nextTick = checkInterval
    /\ callStart = 0
    /\ restartTimes = <<>>
    /\ tickLog = NoTick

\* waitForRPCHealthy has not returned.
NotReturned == [kind |-> "none", wraps |-> "nil"]

\* No call of waitForRPCHealthy is made.
NoHealth ==
    /\ rpcURL = ""
    /\ timeout = 0
    /\ interval = 1
    /\ hpc = "idle"
    /\ ctxDone = FALSE
    /\ tickerC = FALSE
    /\ tickerNext = 0
    /\ lastErr = "nil"
    /\ healthRet = NotReturned
    /\ probes = <<>>
    /\ healthRetTime = ZeroTime

\* A nil *Config: Nil tells that the pointer is nil, the fields are never
\* read.
NilConfig == [Name |-> "", Region |-> "", DryRun |-> FALSE,
              SkipHealthCheck |-> FALSE, SkipVolume |-> FALSE, Nil |-> TRUE]

\* No deployment has been made, on an empty platform.
NoDeployment == [Name |-> "", RPCURL |-> "", WebSocketURL |-> "",
                 Provider |-> ""]
\* A response of the platform: the transport error of the HTTP request
\* ("nil" for none), the status code, the body and the GraphQL errors.
Response(err, status, body, errors) ==
    [err |-> err, status |-> status, body |-> body, errors |-> errors]
NotAsked == Response("not asked", 0, "", <<>>)
RequestFailed == Response("request failed", 0, "", <<>>)

\* A response to the listing of an app's volumes: valid tells whether the
\* body decodes, volumes are the names listed.
Listing(err, status, valid, volumes) ==
    [err |-> err, status |-> status, valid |-> valid, volumes |-> volumes]

NoAnswers == [app |-> NotAsked, v4 |-> NotAsked, v6 |-> NotAsked,
              list |-> Listing("not asked", 0, TRUE, {}), create |-> NotAsked,
              volume |-> "none", push |-> "none", stage |-> "none",
              log |-> "none", health |-> "none"]
NoPlatform == [apps |-> {}, ips |-> {}, volumes |-> <<>>]

\* No Deploy call is made.
NoDeploy ==
    /\ provider = "fly"
    /\ cfg = [Name |-> "", Region |-> "", DryRun |-> FALSE,
              SkipHealthCheck |-> FALSE, SkipVolume |-> FALSE,
              Nil |-> FALSE]
    /\ env = [AccessToken |-> "", environ |-> [n \in EnvNames("fly") |-> ""],
              creds |-> "", credsErr |-> FALSE, cli |-> FALSE,
              files |-> FALSE, deployLog |-> <<>>]
    /\ dpc = "idle"
    /\ deployment = NoDeployment
    /\ deployErr = "nil"
    /\ token = ""
    /\ logs = <<>>
    /\ platform = NoPlatform
    /\ answers = NoAnswers
    /\ effects = {}
    /\ steps = <<>>
    /\ runs = 0

\* No call of VerifyAccessToken is made.
NoVerify ==
    /\ verify = [token |-> "", pc |-> "idle", statusErr |-> NotAsked,
                 ret |-> "none"]
    /\ requests = <<>>

\* A JSON value as Go's decoder sees it: a member that is missing, null, a
\* string s, an integer n, a number with a fraction, a boolean or an object.
JSON(kind, s, n) == [kind |-> kind, s |-> s, n |-> n]
JMissing == JSON("missing", "", 0)
JNull == JSON("null", "", 0)
JStr(s) == JSON("string", s, 0)
JNum(n) == JSON("number", "", n)
JFrac == JSON("fraction", "", 0)
JBool == JSON("bool", "", 0)
JObj == JSON("object", "", 0)

\* An HTTP answer to a JSON-RPC request: the transport error, the status,
\* whether the body decodes as a JSON object, and its "error" and "result"
\* members.
RpcResponse(err, status, valid, error, result) ==
    [err |-> err, status |-> status, valid |-> valid, error |-> error,
     result |-> result]

\* No RPC call is made.
NoRpc ==
    rpc = [caller |-> "none",
           resp |-> RpcResponse("not asked", 0, FALSE, JMissing, JMissing),
           pc |-> "idle", err |-> "nil", slot |-> 0, health |-> ""]

\* emptyState(): no deployment, no last deployment.
EmptyState == [LastDeployment |-> "", Deployments |-> <<>>]
\* DeploymentRecord{}
NoRecord == [Name |-> "", Provider |-> "", RPCURL |-> "", WebSocketURL |-> "",
             Region |-> "", CreatedAt |-> ZeroTime, UpdatedAt |-> ZeroTime]
\* No method of a State has been called.
NoCall == [op |-> "none", name |-> "", rec |-> NoRecord, err |-> "nil"]
\* The inputs of a command that is not run.
NoInputs == [provider |-> ""]

\* No command is run, beside an empty state file.
NoCmd ==
    /\ cmd = [name |-> "none", pc |-> "idle", in |-> NoInputs, err |-> "nil"]
    /\ state = EmptyState
    /\ stateFile = EmptyState
    /\ stateCall = NoCall

\* The history is used on its own: no watch loop runs.
NoWatcher ==
    /\ checkInterval = 1
    /\ maxRestarts = 0
    /\ restartCooldown = 0
    /\ autoRestart = FALSE
    /\ InitWatcherFields

(***************************************************************************)
(* The state after NewSlotHistory(stuckThreshold).                         *)
(***************************************************************************)
InitHist ==
    /\ NoWatcher
    /\ NoHealth
    /\ NoDeploy
    /\ NoVerify
    /\ NoRpc
    /\ NoCmd
    /\ entries = <<>>
    /\ mu = NoProc
    /\ stuckThreshold \in Thresholds
    /\ pc = [p \in Procs |-> "idle"]
    /\ arg = [p \in Procs |-> 0]
    /\ entry = [p \in Procs |-> <<>>]
    /\ ret = [p \in Procs |-> NoRet]
    /\ now = 0
    /\ events = 0
    /\ recorded = <<>>

(***************************************************************************)
(* Environment.                                                            *)
(***************************************************************************)
\* The clock advances.
ClockTick(maxEvents) ==
    /\ events < maxEvents
    /\ now' = now + 1
    /\ events' = events + 1
    /\ UNCHANGED <<entries, mu, stuckThreshold, pc, arg, entry, ret, recorded>>

\* The number of Record calls begun and not yet appended.
PendingRecords ==
    Cardinality({p \in Procs : pc[p] \in {"rec_lock", "rec_now", "rec_append"}})

\* Goroutine p calls h.Record(slot).
CallRecord(p, slot, maxEvents, maxRecords) ==
    /\ pc[p] = "idle"
    /\ Len(recorded) + PendingRecords < maxRecords
    /\ IF slot # GetLatestSlotOf(entries)
       THEN events < maxEvents /\ events' = events + 1
       ELSE events' = events
    /\ pc' = [pc EXCEPT ![p] = "rec_lock"]
    /\ arg' = [arg EXCEPT ![p] = slot]
    /\ ret' = [ret EXCEPT ![p] = NoRet]
    /\ UNCHANGED <<entries, mu, stuckThreshold, entry, now, recorded>>

\* Goroutine p calls h.IsStuck().
CallIsStuck(p) ==
    /\ pc[p] = "idle"
    /\ pc' = [pc EXCEPT ![p] = "stk_lock"]
    /\ ret' = [ret EXCEPT ![p] = NoRet]
    /\ UNCHANGED <<entries, mu, stuckThreshold, arg, entry, now, events, recorded>>

\* Goroutine p calls h.HasProgressed().
CallHasProgressed(p) ==
    /\ pc[p] = "idle"
    /\ pc' = [pc EXCEPT ![p] = "hp_lock"]
    /\ ret' = [ret EXCEPT ![p] = NoRet]
    /\ UNCHANGED <<entries, mu, stuckThreshold, arg, entry, now, events, recorded>>

(***************************************************************************)
(* monitor.SlotHistory: the calls, statement by statement.                 *)
(***************************************************************************)
\* A Lock that does not wait for the holder.
MuLockNoWait(p) == mu' = p

\* h.mu.Lock(): blocks until the mutex is free.
MuLock(p) == mu = NoProc /\ mu' = p

\* defer h.mu.Unlock()
MuUnlock(p) == mu' = NoProc

\* Record: h.mu.Lock()
RecordLock(p) ==
    /\ pc[p] = "rec_lock"
    /\ MuLock(p)
    /\ pc' = [pc EXCEPT ![p] = "rec_now"]
    /\ UNCHANGED <<entries, stuckThreshold, arg, entry, ret, now, events, recorded>>

\* Record: entry := SlotEntry{Slot: slot, Timestamp: time.Now()}
RecordEntry(p) ==
    /\ pc[p] = "rec_now"
    /\ entry' = [entry EXCEPT ![p] = <<SlotEntry(arg[p], now)>>]
    /\ pc' = [pc EXCEPT ![p] = "rec_append"]
    /\ UNCHANGED <<entries, mu, stuckThreshold, arg, ret, now, events, recorded>>

\* Record: h.entries = append(h.entries, entry)
RecordAppend(p) ==
    /\ pc[p] = "rec_append"
    /\ entries' = AppendEntry(entries, entry[p][1])
    /\ recorded' = Append(recorded, entry[p][1])
    /\ pc' = [pc EXCEPT ![p] = "rec_trim"]
    /\ UNCHANGED <<mu, stuckThreshold, arg, entry, ret, now, events>>

\* Record: trim to max entries
RecordTrim(p) ==
    /\ pc[p] = "rec_trim"
    /\ entries' = TrimEntries(entries)
    /\ pc' = [pc EXCEPT ![p] = "rec_unlock"]
    /\ UNCHANGED <<mu, stuckThreshold, arg, entry, ret, now, events, recorded>>

\* Record: the deferred h.mu.Unlock(), and return
RecordUnlock(p) ==
    /\ pc[p] = "rec_unlock"
    /\ MuUnlock(p)
    /\ pc' = [pc EXCEPT ![p] = "idle"]
    /\ arg' = [arg EXCEPT ![p] = 0]
    /\ entry' = [entry EXCEPT ![p] = <<>>]
    /\ UNCHANGED <<entries, stuckThreshold, ret, now, events, recorded>>

\* IsStuck entering its body without taking the mutex.
IsStuckNoLock(p) ==
    /\ pc[p] = "stk_lock"
    /\ pc' = [pc EXCEPT ![p] = "stk_body"]
    /\ UNCHANGED <<entries, mu, stuckThreshold, arg, entry, ret, now, events, recorded>>

\* IsStuck: h.mu.Lock()
IsStuckLock(p) ==
    /\ pc[p] = "stk_lock"
    /\ MuLock(p)
    /\ pc' = [pc EXCEPT ![p] = "stk_body"]
    /\ UNCHANGED <<entries, stuckThreshold, arg, entry, ret, now, events, recorded>>

\* IsStuck: the body, the deferred unlock, and return
IsStuckBody(p) ==
    /\ pc[p] = "stk_body"
    /\ ret' = [ret EXCEPT ![p] = StuckRet(IsStuckOf(entries, stuckThreshold))]
    /\ MuUnlock(p)
    /\ pc' = [pc EXCEPT ![p] = "idle"]
    /\ UNCHANGED <<entries, stuckThreshold, arg, entry, now, events, recorded>>

\* HasProgressed: h.mu.Lock()
HasProgressedLock(p) ==
    /\ pc[p] = "hp_lock"
    /\ MuLock(p)
    /\ pc' = [pc EXCEPT ![p] = "hp_body"]
    /\ UNCHANGED <<entries, stuckThreshold, arg, entry, ret, now, events, recorded>>

\* HasProgressed: the body, the deferred unlock, and return
HasProgressedBody(p) ==
    /\ pc[p] = "hp_body"
    /\ ret' = [ret EXCEPT ![p] = ProgRet(HasProgressedOf(entries))]
    /\ MuUnlock(p)
    /\ pc' = [pc EXCEPT ![p] = "idle"]
    /\ UNCHANGED <<entries, stuckThreshold, arg, entry, now, events, recorded>>

\* One step of the goroutines in P calling the history, or of the clock.
HistStep(P, maxEvents, maxRecords) ==
    \/ ClockTick(maxEvents)
    \/ \E p \in P : \E slot \in Slots : CallRecord(p, slot, maxEvents, maxRecords)
    \/ \E p \in P : CallIsStuck(p)
    \/ \E p \in P : CallHasProgressed(p)
    \/ \E p \in P : RecordLock(p)
    \/ \E p \in P : RecordEntry(p)
    \/ \E p \in P : RecordAppend(p)
    \/ \E p \in P : RecordTrim(p)
    \/ \E p \in P : RecordUnlock(p)
    \/ \E p \in P : IsStuckLock(p)
    \/ \E p \in P : IsStuckBody(p)
    \/ \E p \in P : HasProgressedLock(p)
    \/ \E p \in P : HasProgressedBody(p)

\* A single goroutine uses the history (as the watch loop does).
Next == HistStep({1}, MaxEvents, MaxRecords) /\ UNCHANGED outsideHist
Spec == InitHist /\ [][Next]_vars

\* A single goroutine records more slots than the history holds.
NextLong ==
    HistStep({1}, MaxEventsLong, MaxEntries + ExtraRecords) /\ UNCHANGED outsideHist
SpecLong == InitHist /\ [][NextLong]_vars

\* Several goroutines use the history concurrently.
\* They start after PreLen calls Record(slot) made at clock reading 0.
InitConc ==
    /\ NoWatcher
    /\ NoHealth
    /\ NoDeploy
    /\ NoVerify
    /\ NoRpc
    /\ NoCmd
    /\ \E slot \in Slots :
          entries = [i \in 1..PreLen |-> SlotEntry(slot, 0)]
    /\ recorded = entries
    /\ mu = NoProc
    /\ stuckThreshold \in Thresholds
    /\ pc = [p \in Procs |-> "idle"]
    /\ arg = [p \in Procs |-> 0]
    /\ entry = [p \in Procs |-> <<>>]
    /\ ret = [p \in Procs |-> NoRet]
    /\ now = 0
    /\ events = 0
NextConc ==
    HistStep(Procs, MaxEventsConc, PreLen + MaxRecordsConc) /\ UNCHANGED outsideHist
SpecConc == InitConc /\ [][NextConc]_vars

(***************************************************************************)
(* cmd.ValidatorWatcher: Run and checkAndRestart.  A step ends where the   *)
(* goroutine blocks: in Run's select, in the getSlot call, at the          *)
(* confirmation prompt, in the restart call.                               *)
(***************************************************************************)
\* The ValidatorWatcher of runWatch and the SlotHistory it owns, as Run starts.
InitWatch ==
    /\ entries = <<>>
    /\ mu = NoProc
    /\ stuckThreshold \in Thresholds
    /\ pc = [p \in Procs |-> "idle"]
    /\ arg = [p \in Procs |-> 0]
    /\ entry = [p \in Procs |-> <<>>]
    /\ ret = [p \in Procs |-> NoRet]
    /\ now = 0
    /\ events = 0
    /\ recorded = <<>>
    /\ checkInterval \in {1, MaxInterval}
    /\ maxRestarts \in 0..MaxMaxRestarts
    /\ restartCooldown \in {0, MaxCooldown}
    /\ autoRestart \in BOOLEAN
    /\ InitWatcherFields
    /\ NoHealth
    /\ NoDeploy
    /\ NoVerify
    /\ NoRpc
    /\ NoCmd

\* h.Record(slot) as one call of an uncontended history.
RecordCall(es, slot, t) == TrimEntries(AppendEntry(es, SlotEntry(slot, t)))

\* A max-restarts test that stops one restart late.
RunAfterCheckLate(err, count) ==
    IF err \in {"canceled", "deadline"} THEN "stopped"
    ELSE IF maxRestarts > 0 /\ count > maxRestarts THEN "stopped"
    ELSE "select"

\* Run, after checkAndRestart returned err with restartCount = count: return
\* on a context error, return when max restarts is reached, else loop.
RunAfterCheck(err, count) ==
    IF err \in {"canceled", "deadline"} THEN "stopped"
    ELSE IF maxRestarts > 0 /\ count >= maxRestarts THEN "stopped"
    ELSE "select"

\* A cooldown test that is one clock unit short.
CooldownActiveShort(t) ==
    /\ lastRestartTime # ZeroTime
    /\ t - lastRestartTime < restartCooldown - 1

\* The cooldown test of checkAndRestart at clock reading t.
CooldownActive(t) ==
    /\ lastRestartTime # ZeroTime
    /\ t - lastRestartTime < restartCooldown

\* One more environment event, while the bound allows it.
Event == events < MaxEventsWatch /\ events' = events + 1

\* Time passes while the goroutine is blocked (its own statements take no
\* time). The ticker fires at nextTick, and a remote call ends by its
\* sub-timeout, and at once when its context (a child of ctx) is cancelled;
\* fmt.Scanln takes no context and waits for the user's line.
AdvanceTo(maxTime) ==
    /\ wpc \in {"select", "rpc", "prompt", "restart"}
    /\ wpc = "select" => ~tickPending /\ ~cancelled
    /\ now < maxTime
    /\ now < nextTick
    /\ wpc = "rpc" => now - callStart < RpcTimeout
    /\ wpc = "restart" => now - callStart < RestartTimeout
    /\ wpc \in {"rpc", "restart"} => ~cancelled
    /\ now' = now + 1
    /\ IF wpc \in {"rpc", "prompt", "restart"} /\ now = callStart
       THEN Event
       ELSE UNCHANGED events
    /\ UNCHANGED outsideWatch
    /\ UNCHANGED <<entries, stuckThreshold, recorded, callerVars, checkInterval,
                   maxRestarts, restartCooldown, autoRestart, restartCount,
                   lastRestartTime, wpc, cancelled, cancelTime, tickPending,
                   nextTick, callStart, restartTimes, tickLog>>

Advance == AdvanceTo(MaxTimeWatch)

\* time.NewTicker(w.checkInterval): the ticker sends on ticker.C, a channel
\* of capacity 1; a tick is dropped when one is pending already.
TickerFire ==
    /\ wpc # "stopped"
    /\ now = nextTick
    /\ tickPending' = TRUE
    /\ nextTick' = nextTick + checkInterval
    /\ UNCHANGED outsideWatch
    /\ UNCHANGED <<entries, stuckThreshold, recorded, callerVars, now, events,
                   checkInterval, maxRestarts, restartCooldown, autoRestart,
                   restartCount, lastRestartTime, wpc, cancelled,
                   cancelTime, callStart,
                   restartTimes, tickLog>>

\* signal.NotifyContext: an interrupt cancels ctx.
Cancel ==
    /\ Event
    /\ wpc # "stopped"
    /\ ~cancelled
    /\ cancelled' = TRUE
    /\ cancelTime' = now
    /\ UNCHANGED outsideWatch
    /\ UNCHANGED <<entries, stuckThreshold, recorded, callerVars, now, 
                   checkInterval, maxRestarts, restartCooldown, autoRestart,
                   restartCount, lastRestartTime, wpc, tickPending, nextTick,
                   callStart, restartTimes, tickLog>>

\* Run: case <-ctx.Done(): return nil
SelectDone ==
    /\ wpc = "select"
    /\ cancelled
    /\ wpc' = "stopped"
    /\ UNCHANGED outsideWatch
    /\ UNCHANGED <<entries, stuckThreshold, recorded, callerVars, now, events,
                   checkInterval, maxRestarts, restartCooldown, autoRestart,
                   restartCount, lastRestartTime, cancelled,
                   cancelTime, tickPending,
                   nextTick, callStart, restartTimes, tickLog>>

\* A receive from a ticker channel that keeps a backlog: the tick is taken
\* and another one stays pending.
SelectTickBacklog ==
    /\ wpc = "select"
    /\ tickPending
    /\ wpc' = "rpc"
    /\ callStart' = now
    /\ tickLog' = [NoTick EXCEPT !.rpc = "pending"]
    /\ UNCHANGED outsideWatch
    /\ UNCHANGED <<entries, stuckThreshold, recorded, callerVars, now, events,
                   checkInterval, maxRestarts, restartCooldown, autoRestart,
                   restartCount, lastRestartTime, cancelled,
                   cancelTime, tickPending, nextTick,
                   restartTimes>>

\* Run: case <-ticker.C: checkAndRestart begins and calls getSlot.
SelectTick ==
    /\ wpc = "select"
    /\ tickPending
    /\ tickPending' = FALSE
    /\ wpc' = "rpc"
    /\ callStart' = now
    /\ tickLog' = [NoTick EXCEPT !.rpc = "pending"]
    /\ UNCHANGED outsideWatch
    /\ UNCHANGED <<entries, stuckThreshold, recorded, callerVars, now, events,
                   checkInterval, maxRestarts, restartCooldown, autoRestart,
                   restartCount, lastRestartTime, cancelled,
                   cancelTime, nextTick,
                   restartTimes>>

\* An RPC failure branch without its `return nil`: the zero value of slot is
\* recorded and the stuck check runs.
RpcFailFallsThrough ==
    /\ Event
    /\ wpc = "rpc"
    /\ entries' = RecordCall(entries, 0, now)
    /\ recorded' = Append(recorded, SlotEntry(0, now))
    /\ LET stuck == IsStuckOf(entries', stuckThreshold).stuck
       IN /\ tickLog' = [tickLog EXCEPT !.rpc = "fail", !.stuck = stuck]
          /\ wpc' = IF stuck THEN "stuck"
                    ELSE RunAfterCheck("nil", restartCount)
    /\ UNCHANGED outsideWatch
    /\ UNCHANGED <<stuckThreshold, callerVars, now, checkInterval, maxRestarts,
                   restartCooldown, autoRestart, restartCount, lastRestartTime,
                   cancelled,
                   cancelTime, tickPending, nextTick, callStart, restartTimes>>

\* checkAndRestart: rpcCall returns an error (unreachable, timed out,
\* cancelled, bad response): warn and return nil; Run loops.
RpcFail ==
    /\ Event
    /\ wpc = "rpc"
    /\ tickLog' = [tickLog EXCEPT !.rpc = "fail"]
    /\ wpc' = RunAfterCheck("nil", restartCount)
    /\ UNCHANGED outsideWatch
    /\ UNCHANGED <<entries, stuckThreshold, recorded, callerVars, now, 
                   checkInterval, maxRestarts, restartCooldown, autoRestart,
                   restartCount, lastRestartTime, cancelled,
                   cancelTime, tickPending,
                   nextTick, callStart, restartTimes>>

\* checkAndRestart: rpcCall returns slot: Record it, ask IsStuck (and
\* HasProgressed for the status line); not stuck returns nil.
RpcOk(slot) ==
    /\ wpc = "rpc"
    /\ ~cancelled
    /\ entries' = RecordCall(entries, slot, now)
    /\ recorded' = Append(recorded, SlotEntry(slot, now))
    /\ LET stuck == IsStuckOf(entries', stuckThreshold).stuck
       IN /\ tickLog' = [tickLog EXCEPT !.rpc = "ok", !.stuck = stuck]
          /\ wpc' = IF stuck THEN "stuck"
                    ELSE RunAfterCheck("nil", restartCount)
    /\ IF slot # GetLatestSlotOf(entries) THEN Event ELSE UNCHANGED events
    /\ UNCHANGED outsideWatch
    /\ UNCHANGED <<stuckThreshold, callerVars, now, checkInterval, maxRestarts,
                   restartCooldown, autoRestart, restartCount, lastRestartTime,
                   cancelled,
                   cancelTime, tickPending, nextTick, callStart, restartTimes>>

\* checkAndRestart: stuck detected: the cooldown check, then the prompt
\* unless autoRestart, then the restart call.
CooldownCheck ==
    /\ wpc = "stuck"
    /\ IF CooldownActive(now)
       THEN /\ tickLog' = [tickLog EXCEPT !.cooldown = TRUE]
            /\ wpc' = RunAfterCheck("nil", restartCount)
            /\ UNCHANGED callStart
       ELSE IF ~autoRestart
            THEN /\ tickLog' = [tickLog EXCEPT !.prompted = TRUE]
                 /\ wpc' = "prompt"
                 /\ callStart' = now
            ELSE /\ tickLog' = [tickLog EXCEPT !.restart = "called"]
                 /\ wpc' = "restart"
                 /\ callStart' = now
    /\ UNCHANGED outsideWatch
    /\ UNCHANGED <<entries, stuckThreshold, recorded, callerVars, now, events,
                   checkInterval, maxRestarts, restartCooldown, autoRestart,
                   restartCount, lastRestartTime, cancelled,
                   cancelTime, tickPending,
                   nextTick, restartTimes>>

\* A prompt whose answer is read and then ignored: the restart is made
\* whatever the user typed.
PromptAnswerIgnored(response) ==
    /\ wpc = "prompt"
    /\ tickLog' = [tickLog EXCEPT !.response = response, !.restart = "called"]
    /\ wpc' = "restart"
    /\ callStart' = now
    /\ IF response # "y" /\ response # "yes" THEN Event ELSE UNCHANGED events
    /\ UNCHANGED outsideWatch
    /\ UNCHANGED <<entries, stuckThreshold, recorded, callerVars, now, 
                   checkInterval, maxRestarts, restartCooldown, autoRestart,
                   restartCount, lastRestartTime, cancelled,
                   cancelTime, tickPending,
                   nextTick, restartTimes>>

\* checkAndRestart: fmt.Scanln returns the user's response: anything but
\* y / yes skips the restart.
PromptAnswer(response) ==
    /\ wpc = "prompt"
    /\ IF response # "y" /\ response # "yes"
       THEN /\ Event
            /\ tickLog' = [tickLog EXCEPT !.response = response]
            /\ wpc' = RunAfterCheck("nil", restartCount)
            /\ UNCHANGED callStart
       ELSE /\ tickLog' = [tickLog EXCEPT !.response = response,
                                           !.restart = "called"]
            /\ wpc' = "restart"
            /\ callStart' = now
            /\ UNCHANGED events
    /\ UNCHANGED outsideWatch
    /\ UNCHANGED <<entries, stuckThreshold, recorded, callerVars, now, 
                   checkInterval, maxRestarts, restartCooldown, autoRestart,
                   restartCount, lastRestartTime, cancelled,
                   cancelTime, tickPending,
                   nextTick, restartTimes>>

\* A successful restart that also empties the slot history.
RestartOkClearsHistory ==
    /\ wpc = "restart"
    /\ ~cancelled
    /\ restartCount' = restartCount + 1
    /\ lastRestartTime' = now
    /\ restartTimes' = Append(restartTimes, now)
    /\ tickLog' = [tickLog EXCEPT !.restart = "ok"]
    /\ wpc' = RunAfterCheck("nil", restartCount')
    /\ entries' = <<>>
    /\ UNCHANGED outsideWatch
    /\ UNCHANGED <<stuckThreshold, recorded, callerVars, now, events,
                   checkInterval, maxRestarts, restartCooldown, autoRestart,
                   cancelled, cancelTime, tickPending, nextTick, callStart>>

\* checkAndRestart: provider.Restart returns nil: count the restart and
\* store its time.
RestartOk ==
    /\ wpc = "restart"
    /\ ~cancelled
    /\ restartCount' = restartCount + 1
    /\ lastRestartTime' = now
    /\ restartTimes' = Append(restartTimes, now)
    /\ tickLog' = [tickLog EXCEPT !.restart = "ok"]
    /\ wpc' = RunAfterCheck("nil", restartCount')
    /\ UNCHANGED outsideWatch
    /\ UNCHANGED <<entries, stuckThreshold, recorded, callerVars, now, events,
                   checkInterval, maxRestarts, restartCooldown, autoRestart,
                   cancelled, cancelTime, tickPending, nextTick, callStart>>

\* A failure branch that counts the attempt as a restart.
RestartFailCounts(err) ==
    /\ Event
    /\ wpc = "restart"
    /\ err = "canceled" => cancelled
    /\ err = "deadline" => now - callStart >= RestartTimeout
    /\ restartCount' = restartCount + 1
    /\ lastRestartTime' = now
    /\ tickLog' = [tickLog EXCEPT !.restart = "failed"]
    /\ wpc' = RunAfterCheck(err, restartCount)
    /\ UNCHANGED outsideWatch
    /\ UNCHANGED <<entries, stuckThreshold, recorded, callerVars, now,
                   checkInterval, maxRestarts, restartCooldown, autoRestart,
                   cancelled,
                   cancelTime, tickPending, nextTick, callStart, restartTimes>>

\* checkAndRestart: provider.Restart returns err: return it wrapped.
RestartFail(err) ==
    /\ Event
    /\ wpc = "restart"
    /\ err = "canceled" => cancelled
    /\ err = "deadline" => now - callStart >= RestartTimeout
    /\ tickLog' = [tickLog EXCEPT !.restart = "failed"]
    /\ wpc' = RunAfterCheck(err, restartCount)
    /\ UNCHANGED outsideWatch
    /\ UNCHANGED <<entries, stuckThreshold, recorded, callerVars, now,
                   checkInterval, maxRestarts, restartCooldown, autoRestart,
                   restartCount, lastRestartTime, cancelled,
                   cancelTime, tickPending,
                   nextTick, callStart, restartTimes>>

NextWatch ==
    \/ Advance
    \/ TickerFire
    \/ Cancel
    \/ SelectDone
    \/ SelectTick
    \/ RpcFail
    \/ \E slot \in Slots : RpcOk(slot)
    \/ CooldownCheck
    \/ \E response \in Responses : PromptAnswer(response)
    \/ RestartOk
    \/ \E err \in RestartErrors : RestartFail(err)
SpecWatch == InitWatch /\ [][NextWatch]_vars

\* The watch loop against a validator whose getSlot always answers, watched
\* every clock unit for longer than MaxEntries polls, in auto-restart mode
\* with no restart limit; the threshold is one poll interval or StallPolls
\* poll intervals.
InitStall ==
    /\ entries = <<>>
    /\ mu = NoProc
    /\ stuckThreshold \in {1, StallPolls}
    /\ pc = [p \in Procs |-> "idle"]
    /\ arg = [p \in Procs |-> 0]
    /\ entry = [p \in Procs |-> <<>>]
    /\ ret = [p \in Procs |-> NoRet]
    /\ now = 0
    /\ events = 0
    /\ recorded = <<>>
    /\ checkInterval = 1
    /\ maxRestarts = 0
    /\ restartCooldown \in 0..MaxCooldown
    /\ autoRestart = TRUE
    /\ InitWatcherFields
    /\ NoHealth
    /\ NoDeploy
    /\ NoVerify
    /\ NoRpc
    /\ NoCmd

NextStall ==
    \/ AdvanceTo(MaxTimeStall)
    \/ TickerFire
    \/ SelectTick
    \/ \E slot \in Slots : RpcOk(slot)
    \/ CooldownCheck
    \/ RestartOk
SpecStall == InitStall /\ [][NextStall]_vars

(***************************************************************************)
(* providers.waitForRPCHealthy(ctx, rpcURL, timeout, interval): the health *)
(* poller of Deploy. The call is made at clock reading 0; a probe is a     *)
(* call of checkRPCHealth, an HTTP request under healthCtx.                *)
(***************************************************************************)
\* No SlotHistory is in use.
NoHistory ==
    /\ entries = <<>>
    /\ mu = NoProc
    /\ stuckThreshold = 0
    /\ pc = [p \in Procs |-> "idle"]
    /\ arg = [p \in Procs |-> 0]
    /\ entry = [p \in Procs |-> <<>>]
    /\ ret = [p \in Procs |-> NoRet]
    /\ events = 0
    /\ recorded = <<>>

\* strings.TrimSpace(rpcURL) == ""
IsBlank(url) == url \in {"", " "}

InitHealth ==
    /\ NoHistory
    /\ NoWatcher
    /\ NoDeploy
    /\ NoVerify
    /\ NoRpc
    /\ NoCmd
    /\ now = 0
    /\ rpcURL \in URLs
    /\ timeout \in 0..MaxHealthTimeout
    /\ interval \in 1..MaxHealthInterval
    /\ hpc = "call"
    /\ ctxDone = FALSE
    /\ tickerC = FALSE
    /\ tickerNext = 0
    /\ lastErr = "nil"
    /\ healthRet = NotReturned
    /\ probes = <<>>
    /\ healthRetTime = ZeroTime

\* healthCtx.Done() is closed without a deadline: the caller's ctx is
\* cancelled.
HealthCtxDoneNoDeadline(t) == ctxDone

\* healthCtx.Done() is closed: the caller's ctx is cancelled, or timeout > 0
\* and the deadline of context.WithTimeout(ctx, timeout) has passed.
HealthCtxDone(t) == ctxDone \/ (timeout > 0 /\ t >= timeout)

\* healthCtx.Err()
HealthCtxErr == IF ctxDone THEN "canceled" ELSE "deadline"

\* rpcHealthCheckFn(healthCtx, rpcURL) is called.
IssueProbe == probes' = Append(probes, [start |-> now, result |-> "pending"])

\* The probe in flight ends with result r.
EndProbe(r) == probes' = [probes EXCEPT ![Len(probes)].result = r]

\* The empty-URL check, the context with its deadline, the ticker, and the
\* first probe of the loop.
WaitCall ==
    /\ hpc = "call"
    /\ IF IsBlank(rpcURL)
       THEN /\ healthRet' = [kind |-> "empty url", wraps |-> "nil"]
            /\ healthRetTime' = now
            /\ hpc' = "returned"
            /\ UNCHANGED <<tickerNext, probes>>
       ELSE /\ tickerNext' = now + interval
            /\ IssueProbe
            /\ hpc' = "probe"
            /\ UNCHANGED <<healthRet, healthRetTime>>
    /\ UNCHANGED outsideHealth
    /\ UNCHANGED <<rpcURL, timeout, interval, ctxDone, tickerC, lastErr, now>>

\* A probe that succeeds does not end the loop: lastErr is left as it was
\* and the loop waits for the next tick.
ProbeOkKeepsPolling ==
    /\ hpc = "probe"
    /\ ~HealthCtxDone(now)
    /\ EndProbe("ok")
    /\ hpc' = "select"
    /\ UNCHANGED outsideHealth
    /\ UNCHANGED <<rpcURL, timeout, interval, ctxDone, tickerC, tickerNext,
                   lastErr, healthRet, healthRetTime, now>>

\* rpcHealthCheckFn returns nil (the endpoint answers "ok" while healthCtx
\* is live): return nil.
ProbeOk ==
    /\ hpc = "probe"
    /\ ~HealthCtxDone(now)
    /\ EndProbe("ok")
    /\ healthRet' = [kind |-> "nil", wraps |-> "nil"]
    /\ healthRetTime' = now
    /\ hpc' = "returned"
    /\ UNCHANGED outsideHealth
    /\ UNCHANGED <<rpcURL, timeout, interval, ctxDone, tickerC, tickerNext,
                   lastErr, now>>

\* The reasons the probe in flight can fail for: the context error once
\* healthCtx is done (the HTTP request is aborted), an error of the endpoint
\* before.
ProbeFailures ==
    IF HealthCtxDone(now) THEN {HealthCtxErr} ELSE ProbeErrors

\* A failed probe that keeps the first failure reason in lastErr.
ProbeFailKeepsFirst(err) ==
    /\ hpc = "probe"
    /\ err \in ProbeFailures
    /\ EndProbe(err)
    /\ lastErr' = IF lastErr = "nil" THEN err ELSE lastErr
    /\ hpc' = "select"
    /\ UNCHANGED outsideHealth
    /\ UNCHANGED <<rpcURL, timeout, interval, ctxDone, tickerC, tickerNext,
                   healthRet, healthRetTime, now>>

\* rpcHealthCheckFn returns err: lastErr = err, and on to the select.
ProbeFail(err) ==
    /\ hpc = "probe"
    /\ err \in ProbeFailures
    /\ EndProbe(err)
    /\ lastErr' = err
    /\ hpc' = "select"
    /\ UNCHANGED outsideHealth
    /\ UNCHANGED <<rpcURL, timeout, interval, ctxDone, tickerC, tickerNext,
                   healthRet, healthRetTime, now>>

\* case <-healthCtx.Done(): return the error that wraps lastErr (the
\* context's error when lastErr is nil).
WaitSelectDone ==
    /\ hpc = "select"
    /\ HealthCtxDone(now)
    /\ healthRet' = [kind |-> "did not become healthy",
                     wraps |-> IF lastErr = "nil" THEN HealthCtxErr
                               ELSE lastErr]
    /\ healthRetTime' = now
    /\ hpc' = "returned"
    /\ UNCHANGED outsideHealth
    /\ UNCHANGED <<rpcURL, timeout, interval, ctxDone, tickerC, tickerNext,
                   lastErr, probes, now>>

\* case <-ticker.C: the next probe.
WaitSelectTick ==
    /\ hpc = "select"
    /\ tickerC
    /\ tickerC' = FALSE
    /\ IssueProbe
    /\ hpc' = "probe"
    /\ UNCHANGED outsideHealth
    /\ UNCHANGED <<rpcURL, timeout, interval, ctxDone, tickerNext, lastErr,
                   healthRet, healthRetTime, now>>

\* time.NewTicker(interval): a tick every interval, dropped when one waits
\* in ticker.C already.
WaitTickerFire ==
    /\ hpc \in {"probe", "select"}
    /\ now = tickerNext
    /\ tickerC' = TRUE
    /\ tickerNext' = tickerNext + interval
    /\ UNCHANGED outsideHealth
    /\ UNCHANGED <<rpcURL, timeout, interval, hpc, ctxDone, lastErr,
                   healthRet, probes, healthRetTime, now>>

\* The caller's ctx is cancelled.
CtxCancel ==
    /\ hpc \in {"call", "probe", "select"}
    /\ ~ctxDone
    /\ ctxDone' = TRUE
    /\ UNCHANGED outsideHealth
    /\ UNCHANGED <<rpcURL, timeout, interval, hpc, tickerC, tickerNext,
                   lastErr, healthRet, probes, healthRetTime, now>>

\* Time passes while the goroutine is blocked: in a probe whose context is
\* live, or in the select with no tick waiting and healthCtx live.
WaitAdvance ==
    /\ \/ hpc = "probe"
       \/ hpc = "select" /\ ~tickerC
    /\ ~HealthCtxDone(now)
    /\ now < tickerNext
    /\ now < HealthHorizon
    /\ now' = now + 1
    /\ UNCHANGED outsideHealth
    /\ UNCHANGED healthVars

NextHealth ==
    \/ WaitCall
    \/ ProbeOk
    \/ \E err \in ProbeErrors \cup {"canceled", "deadline"} : ProbeFail(err)
    \/ WaitSelectDone
    \/ WaitSelectTick
    \/ WaitTickerFire
    \/ CtxCancel
    \/ WaitAdvance
SpecHealth == InitHealth /\ [][NextHealth]_vars

(***************************************************************************)
(* providers.FlyProvider.Deploy and providers.RailwayProvider.Deploy. The  *)
(* remote side is the platform: the apps created, the IP addresses         *)
(* allocated and the volumes created so far, which outlive a Deploy call.  *)
(* A response is [err, status, body, errors]: the transport error of the   *)
(* HTTP request, the status code, the body (lower-cased) and the GraphQL   *)
(* errors.                                                                 *)
(***************************************************************************)
\* What the Machines API answers to POST /apps for name.
AppResponses(name) ==
    IF name \in platform.apps
    THEN {Response("nil", 409, "app already exists", <<>>),
          Response("nil", 422, "name has already been taken", <<>>),
          Response("nil", 422, "validation failed", <<>>),
          Response("nil", 500, "internal error", <<>>),
          RequestFailed}
    ELSE {Response("nil", 201, "created", <<>>),
          Response("nil", 500, "internal error", <<>>),
          RequestFailed}

\* What the GraphQL API answers to allocateIpAddress for name and ipType.
IPResponses(name, ipType) ==
    IF <<name, ipType>> \in platform.ips
    THEN {Response("nil", 200, "", <<"app already has a shared ip">>),
          Response("nil", 200, "", <<"ip already allocated">>),
          Response("nil", 200, "", <<"rate limited">>),
          Response("nil", 200, "", <<"app already has a shared ip",
                                     "rate limited">>),
          Response("nil", 200, "", <<"rate limited",
                                     "ip already allocated">>),
          Response("nil", 500, "internal error", <<>>),
          RequestFailed}
    ELSE {Response("nil", 200, "", <<>>),
          Response("nil", 200, "", <<"rate limited">>),
          Response("nil", 500, "internal error", <<>>),
          RequestFailed}

\* volumeName := fmt.Sprintf("%s_ledger", appName)
VolumeName(appName) == appName \o "_ledger"

\* The volumes of appName that exist on the platform, by name.
VolumesOf(appName) ==
    {platform.volumes[i].name :
        i \in {j \in DOMAIN platform.volumes :
                  platform.volumes[j].app = appName}}

\* What the Machines API answers to GET /apps/<name>/volumes: the volumes
\* of the app, a listing that lags behind a creation, or a failure.
ListResponses(appName) ==
    {Listing("nil", 200, TRUE, VolumesOf(appName)),
     Listing("nil", 200, TRUE, VolumesOf(appName) \cup {"data"}),
     Listing("nil", 200, TRUE, {}),
     Listing("nil", 200, FALSE, {}),
     Listing("nil", 500, TRUE, {}),
     Listing("request failed", 0, TRUE, {})}
    \cup (IF VolumesOf(appName) = {}
          THEN {Listing("nil", 404, TRUE, {})} ELSE {})

\* What the Machines API answers to POST /apps/<name>/volumes; the volume
\* exists from then on when the status is 2xx.
CreateResponses ==
    {Response("nil", 201, "volume", <<>>),
     Response("nil", 201, "undecodable", <<>>),
     Response("nil", 500, "internal error", <<>>),
     RequestFailed}

\* strings.Contains(lower, ...) of ensureAppExists, on the bodies above.
NameTaken(body) ==
    body \in {"app already exists", "name has already been taken"}

\* strings.Contains(msg, "already has") || strings.Contains(msg, "already
\* allocated"), on the messages above.
AlreadyAllocated(msg) ==
    msg \in {"app already has a shared ip", "ip already allocated"}

\* An ensureAppExists for which every answer but 2xx is an error.
EnsureAppExistsErrStrict(resp) ==
    IF resp.err # "nil" THEN "request failed"
    ELSE IF resp.status >= 200 /\ resp.status < 300 THEN "nil"
    ELSE "create app failed"

\* The error ensureAppExists returns on resp ("nil" for none).
EnsureAppExistsErr(resp) ==
    IF resp.err # "nil" THEN "request failed"
    ELSE IF resp.status >= 200 /\ resp.status < 300 THEN "nil"
    ELSE IF resp.status \in {409, 422} /\ NameTaken(resp.body) THEN "nil"
    ELSE "create app failed"

\* The error graphQLRequest returns on resp.
GraphQLRequestErr(resp) ==
    IF resp.err # "nil" THEN "graphql request failed"
    ELSE IF resp.status \in {401, 403} THEN "graphql auth rejected"
    ELSE IF resp.status < 200 \/ resp.status >= 300 THEN "graphql status"
    ELSE "nil"

\* The error allocateIPAddress returns on resp: the first GraphQL error
\* decides.
AllocateIPAddressErr(resp) ==
    IF GraphQLRequestErr(resp) # "nil" THEN "allocate ip failed"
    ELSE IF resp.errors = <<>> THEN "nil"
    ELSE IF AlreadyAllocated(resp.errors[1]) THEN "nil"
    ELSE "allocate ip graphql error"

\* The error listVolumes returns on resp; a 404 is an empty listing.
ListVolumesErr(resp) ==
    IF resp.err # "nil" THEN "list volumes: request failed"
    ELSE IF resp.status = 404 THEN "nil"
    ELSE IF resp.status < 200 \/ resp.status >= 300
    THEN "list volumes: list volumes failed"
    ELSE IF ~resp.valid THEN "list volumes: decode volumes response"
    ELSE "nil"

\* The volumes listVolumes returns on resp.
ListedVolumes(resp) ==
    IF ListVolumesErr(resp) = "nil" /\ resp.status # 404
    THEN resp.volumes ELSE {}

\* The error createVolume returns on resp.
CreateVolumeErr(resp) ==
    IF resp.err # "nil" THEN "request failed"
    ELSE IF resp.status < 200 \/ resp.status >= 300
    THEN "create volume failed"
    ELSE IF resp.body = "undecodable" THEN "decode volume response"
    ELSE "nil"

\* strings.TrimSpace, on the values above: a blank string, a padded one.
TrimSpace(s) ==
    IF IsBlank(s) THEN ""
    ELSE IF \E n \in TokenSources \cup AppNames : s = Padded(n)
    THEN CHOOSE n \in TokenSources \cup AppNames : s = Padded(n)
    ELSE s

\* A resolveAccessToken that reads the credentials file first.
ResolveAccessTokenStoreFirst ==
    IF ~env.credsErr /\ TrimSpace(env.creds) # ""
    THEN [token |-> TrimSpace(env.creds), err |-> "nil"]
    ELSE IF TrimSpace(env.AccessToken) # ""
    THEN [token |-> TrimSpace(env.AccessToken), err |-> "nil"]
    ELSE [token |-> "", err |-> "no access token configured"]

\* FlyProvider.resolveAccessToken / RailwayProvider.resolveAccessToken:
\* the token and the error ("nil" for none).
ResolveAccessToken ==
    IF TrimSpace(env.AccessToken) # ""
    THEN [token |-> TrimSpace(env.AccessToken), err |-> "nil"]
    ELSE IF provider = "fly"
            /\ TrimSpace(env.environ["SOL_CLOUD_FLY_ACCESS_TOKEN"]) # ""
    THEN [token |-> TrimSpace(env.environ["SOL_CLOUD_FLY_ACCESS_TOKEN"]),
          err |-> "nil"]
    ELSE IF provider = "fly" /\ TrimSpace(env.environ["FLY_ACCESS_TOKEN"]) # ""
    THEN [token |-> TrimSpace(env.environ["FLY_ACCESS_TOKEN"]), err |-> "nil"]
    ELSE IF provider = "fly" /\ TrimSpace(env.environ["FLY_API_TOKEN"]) # ""
    THEN [token |-> TrimSpace(env.environ["FLY_API_TOKEN"]), err |-> "nil"]
    ELSE IF provider = "railway"
            /\ TrimSpace(env.environ["SOL_CLOUD_RAILWAY_TOKEN"]) # ""
    THEN [token |-> TrimSpace(env.environ["SOL_CLOUD_RAILWAY_TOKEN"]),
          err |-> "nil"]
    ELSE IF provider = "railway"
            /\ TrimSpace(env.environ["RAILWAY_TOKEN"]) # ""
    THEN [token |-> TrimSpace(env.environ["RAILWAY_TOKEN"]), err |-> "nil"]
    ELSE IF env.credsErr THEN [token |-> "", err |-> "load credentials"]
    ELSE IF TrimSpace(env.creds) # ""
    THEN [token |-> TrimSpace(env.creds), err |-> "nil"]
    ELSE [token |-> "", err |-> "no access token configured"]

\* The host flyDomainPattern finds in the outputs above, lower-cased; ""
\* when it matches nothing.
ExtractFlyHost(output) ==
    CASE output = "Visit your newly deployed app at https://sol-1234.fly.dev/"
            -> "sol-1234.fly.dev"
      [] output = "hostname: SOL-1234.fly.dev" -> "sol-1234.fly.dev"
      [] OTHER -> ""

\* The Deployment built before the DryRun test.
Placeholder ==
    IF provider = "fly"
    THEN [Name |-> cfg.Name,
          RPCURL |-> "https://" \o cfg.Name \o ".fly.dev",
          WebSocketURL |-> "wss://" \o cfg.Name \o ".fly.dev",
          Provider |-> "fly"]
    ELSE [Name |-> cfg.Name, RPCURL |-> "", WebSocketURL |-> "",
          Provider |-> "railway"]

\* deployment with its endpoints set to host.
WithHost(d, host) ==
    [d EXCEPT !.RPCURL = "https://" \o host, !.WebSocketURL = "wss://" \o host]

\* The configs, providers and machines a Deploy is called with.
InitDeployCall ==
    /\ NoHistory
    /\ NoWatcher
    /\ NoHealth
    /\ NoVerify
    /\ NoRpc
    /\ NoCmd
    /\ now = 0
    /\ dpc = "call"
    /\ deployment = NoDeployment
    /\ deployErr = "nil"
    /\ token = ""
    /\ logs = <<>>
    /\ platform = NoPlatform
    /\ answers = NoAnswers
    /\ effects = {}
    /\ steps = <<>>
    /\ runs = 0

\* Every config and the nil config, on machines with no token at all or
\* with one in the credentials file only.
InitDeploy ==
    /\ InitDeployCall
    /\ provider \in {"fly", "railway"}
    /\ cfg \in [Name : Names, Region : Regions, DryRun : BOOLEAN,
                SkipHealthCheck : BOOLEAN, SkipVolume : BOOLEAN,
                Nil : {FALSE}] \cup {NilConfig}
    /\ env \in [AccessToken : {""},
                environ : {[n \in EnvNames(provider) |-> ""]},
                creds : {"", "creds"}, credsErr : BOOLEAN,
                cli : BOOLEAN, files : BOOLEAN, deployLog : {<<>>}]

\* The calls of InitDeploy, and one valid config that skips the volume and
\* the health check on machines with every combination of token sources.
InitAuth ==
    \/ InitDeploy
    \/ /\ InitDeployCall
       /\ provider \in {"fly", "railway"}
       /\ cfg \in [Name : {"sol"}, Region : {"ord"}, DryRun : BOOLEAN,
                   SkipHealthCheck : {TRUE}, SkipVolume : {TRUE},
                   Nil : {FALSE}]
       /\ env \in [AccessToken : TokenValues("AccessToken"),
                   environ : {f \in [EnvNames(provider) ->
                                        UNION {TokenValues(n) :
                                                  n \in EnvNames(provider)}] :
                                 \A n \in EnvNames(provider) :
                                     f[n] \in TokenValues(n)},
                   creds : TokenValues("creds"), credsErr : BOOLEAN,
                   cli : {TRUE}, files : {TRUE}, deployLog : {<<>>}]

\* return nil, err
ReturnErr(err) ==
    /\ deployment' = NoDeployment
    /\ deployErr' = err
    /\ dpc' = "returned"
    /\ runs' = runs + 1

\* return deployment, nil
ReturnDeployment(d) ==
    /\ deployment' = d
    /\ deployErr' = "nil"
    /\ dpc' = "returned"
    /\ runs' = runs + 1

\* Deploy up to the DryRun test: the checks of cfg, the artifacts directory
\* and the rendered templates, the placeholder Deployment.
DeployBegin ==
    /\ dpc = "call"
    /\ IF cfg.Nil THEN ReturnErr("config is required")
       ELSE IF IsBlank(cfg.Name) THEN ReturnErr("deployment name is required")
       ELSE IF IsBlank(cfg.Region) THEN ReturnErr("region is required")
       ELSE IF ~env.files THEN ReturnErr("create artifacts directory")
       ELSE IF cfg.DryRun THEN ReturnDeployment(Placeholder)
       ELSE /\ deployment' = Placeholder
            /\ dpc' = "auth"
            /\ UNCHANGED <<deployErr, runs>>
    /\ UNCHANGED <<provider, cfg, env, token, logs, platform, answers,
                   effects, steps>>
    /\ UNCHANGED outsideDeploy

\* A Deploy that returns the error of its deploy step before it writes
\* deploy.log.
AfterDeployStageErrorFirst(ans, out, host, err, written, ids) ==
    /\ answers' = [ans EXCEPT !.stage = err,
                              !.log = IF out = <<>> \/ err # "nil" THEN "none"
                                      ELSE IF written THEN "written"
                                      ELSE "failed"]
    /\ env' = IF out # <<>> /\ written /\ err = "nil"
              THEN [env EXCEPT !.deployLog = out] ELSE env
    /\ IF err # "nil" THEN ReturnErr(err)
       ELSE IF out # <<>> /\ ~written THEN ReturnErr("write deploy log")
       ELSE IF ~ids THEN ReturnErr("write railway-ids.json")
       ELSE LET d == IF host = "" THEN deployment
                     ELSE WithHost(deployment, host)
            IN IF ~cfg.SkipHealthCheck /\ d.RPCURL # ""
               THEN /\ deployment' = d
                    /\ dpc' = "health"
                    /\ UNCHANGED <<deployErr, runs>>
               ELSE ReturnDeployment(d)

\* Deploy once the provider's deploy step has returned out, host and err,
\* its remote steps answered ans: deploy.log is written when out is not
\* blank (written tells whether os.WriteFile succeeds), then the error is
\* returned, or railway-ids.json is written (ids tells whether it can be;
\* Fly writes none), the endpoints are set and the health check follows
\* unless it is skipped or there is no RPCURL.
AfterDeployStage(ans, out, host, err, written, ids) ==
    /\ answers' = [ans EXCEPT !.stage = err,
                              !.log = IF out = <<>> THEN "none"
                                      ELSE IF written THEN "written"
                                      ELSE "failed"]
    /\ env' = IF out # <<>> /\ written
              THEN [env EXCEPT !.deployLog = out] ELSE env
    /\ IF out # <<>> /\ ~written
       THEN IF err # "nil"
            THEN ReturnErr(err \o " (also failed to write deploy log)")
            ELSE ReturnErr("write deploy log")
       ELSE IF err # "nil"
       THEN IF out # <<>> THEN ReturnErr(err \o " see deploy log")
            ELSE ReturnErr(err)
       ELSE IF ~ids THEN ReturnErr("write railway-ids.json")
       ELSE LET d == IF host = "" THEN deployment
                     ELSE WithHost(deployment, host)
            IN IF ~cfg.SkipHealthCheck /\ d.RPCURL # ""
               THEN /\ deployment' = d
                    /\ dpc' = "health"
                    /\ UNCHANGED <<deployErr, runs>>
               ELSE ReturnDeployment(d)

\* resolveAccessToken, then the start of the provider's deploy step: the
\* exec.LookPath of its CLI and, on Fly, resolveOrgSlug, which reads the
\* credentials file (cfg.OrgSlug and SOL_CLOUD_FLY_ORG are not set).
DeployAuth ==
    /\ dpc = "auth"
    /\ token' = ResolveAccessToken.token
    /\ IF ResolveAccessToken.err # "nil"
       THEN /\ ReturnErr(provider \o " auth required: run sol-cloud auth "
                         \o provider \o ": " \o ResolveAccessToken.err)
            /\ UNCHANGED <<logs, env, answers>>
       ELSE IF ~env.cli
       THEN /\ logs' = <<>>
            /\ AfterDeployStage(answers, <<>>, "", "cli not found in PATH",
                                TRUE, TRUE)
       ELSE IF provider = "fly" /\ env.credsErr
       THEN /\ logs' = <<>>
            /\ AfterDeployStage(answers, <<>>, "", "load credentials", TRUE,
                                TRUE)
       ELSE /\ logs' = <<provider \o " deploy started">>
            /\ dpc' = IF provider = "fly" THEN "app" ELSE "railway"
            /\ UNCHANGED <<deployment, deployErr, runs, env, answers>>
    /\ UNCHANGED <<provider, cfg, platform, effects, steps>>
    /\ UNCHANGED outsideDeploy

\* deployViaAPI: ensureAppExists, answered resp.
EnsureAppExists(resp, written) ==
    /\ dpc = "app"
    /\ resp \in AppResponses(cfg.Name)
    /\ effects' = effects \cup {"api"}
    /\ steps' = Append(steps, "app")
    /\ platform' = IF resp.err = "nil" /\ resp.status = 201
                   THEN [platform EXCEPT !.apps = @ \cup {cfg.Name}]
                   ELSE platform
    /\ IF EnsureAppExistsErr(resp) # "nil"
       THEN /\ logs' = logs
            /\ AfterDeployStage([answers EXCEPT !.app = resp], logs, "",
                                EnsureAppExistsErr(resp), written, TRUE)
       ELSE /\ written
            /\ logs' = Append(logs, "app ensured")
            /\ answers' = [answers EXCEPT !.app = resp]
            /\ dpc' = "v4"
            /\ UNCHANGED <<deployment, deployErr, runs, env>>
    /\ UNCHANGED <<provider, cfg, token>>
    /\ UNCHANGED outsideDeploy

\* ensureNetworking: allocateIPAddress for shared_v4, then for v6; after
\* it the volume step, which cfg.SkipVolume reduces to a line in the log.
AllocateIPAddress(ipType, resp, written) ==
    /\ dpc = ipType
    /\ resp \in IPResponses(cfg.Name, ipType)
    /\ effects' = effects \cup {"api"}
    /\ steps' = Append(steps, ipType)
    /\ platform' = IF GraphQLRequestErr(resp) = "nil" /\ resp.errors = <<>>
                   THEN [platform EXCEPT !.ips = @ \cup {<<cfg.Name, ipType>>}]
                   ELSE platform
    /\ IF AllocateIPAddressErr(resp) # "nil"
       THEN /\ logs' = logs
            /\ AfterDeployStage([answers EXCEPT ![ipType] = resp], logs, "",
                                AllocateIPAddressErr(resp), written, TRUE)
       ELSE /\ written
            /\ answers' = [answers EXCEPT ![ipType] = resp]
            /\ logs' = IF ipType = "v4" THEN logs
                       ELSE IF cfg.SkipVolume
                       THEN logs \o <<"networking ensured",
                                      "volume creation skipped"
                                      \o " (using ephemeral storage)">>
                       ELSE Append(logs, "networking ensured")
            /\ dpc' = IF ipType = "v4" THEN "v6"
                      ELSE IF cfg.SkipVolume THEN "push" ELSE "volume"
            /\ UNCHANGED <<deployment, deployErr, runs, env>>
    /\ UNCHANGED <<provider, cfg, token>>
    /\ UNCHANGED outsideDeploy

\* The lines deployViaAPI logs for the error err of ensureVolume.
VolumeLines(err) ==
    IF err # "nil"
    THEN <<"volume creation warning: " \o err,
           "continuing with ephemeral storage"
           \o " (data will not persist across restarts)">>
    ELSE <<"volume ensured">>

\* An ensureVolume that creates the volume whatever the listing holds.
ListVolumesAlwaysCreates(resp) ==
    /\ dpc = "volume"
    /\ resp \in ListResponses(cfg.Name)
    /\ answers' = [answers EXCEPT !.list = resp]
    /\ effects' = effects \cup {"api"}
    /\ steps' = Append(steps, "list")
    /\ logs' = logs
    /\ dpc' = "create"
    /\ UNCHANGED <<provider, cfg, env, token, deployment, deployErr,
                   platform, runs>>
    /\ UNCHANGED outsideDeploy

\* ensureVolume: listVolumes, answered resp, and the search for
\* <name>_ledger in the listing.
ListVolumes(resp) ==
    /\ dpc = "volume"
    /\ resp \in ListResponses(cfg.Name)
    /\ answers' = [answers EXCEPT !.list = resp]
    /\ effects' = effects \cup {"api"}
    /\ steps' = Append(steps, "list")
    /\ IF ListVolumesErr(resp) # "nil"
       THEN /\ logs' = logs \o VolumeLines(ListVolumesErr(resp))
            /\ dpc' = "push"
       ELSE IF VolumeName(cfg.Name) \in ListedVolumes(resp)
       THEN /\ logs' = logs \o VolumeLines("nil")
            /\ dpc' = "push"
       ELSE /\ logs' = logs
            /\ dpc' = "create"
    /\ UNCHANGED <<provider, cfg, env, token, deployment, deployErr,
                   platform, runs>>
    /\ UNCHANGED outsideDeploy

\* A deployViaAPI that returns the error of ensureVolume.
CreateVolumeAborts(resp) ==
    /\ dpc = "create"
    /\ resp \in CreateResponses
    /\ effects' = effects \cup {"api"}
    /\ steps' = Append(steps, "create")
    /\ platform' = IF resp.err = "nil" /\ resp.status \in 200..299
                   THEN [platform EXCEPT !.volumes = Append(@,
                            [app |-> cfg.Name, name |-> VolumeName(cfg.Name)])]
                   ELSE platform
    /\ IF CreateVolumeErr(resp) # "nil"
       THEN /\ logs' = logs
            /\ AfterDeployStage([answers EXCEPT !.create = resp], logs, "",
                                CreateVolumeErr(resp), TRUE, TRUE)
       ELSE /\ answers' = [answers EXCEPT !.create = resp]
            /\ logs' = logs \o VolumeLines("nil")
            /\ dpc' = "push"
            /\ UNCHANGED <<deployment, deployErr, runs, env>>
    /\ UNCHANGED <<provider, cfg, token>>
    /\ UNCHANGED outsideDeploy

\* ensureVolume: createVolume, answered resp; its error is a warning in
\* the log.
CreateVolume(resp) ==
    /\ dpc = "create"
    /\ resp \in CreateResponses
    /\ answers' = [answers EXCEPT !.create = resp]
    /\ effects' = effects \cup {"api"}
    /\ steps' = Append(steps, "create")
    /\ platform' = IF resp.err = "nil" /\ resp.status \in 200..299
                   THEN [platform EXCEPT !.volumes = Append(@,
                            [app |-> cfg.Name, name |-> VolumeName(cfg.Name)])]
                   ELSE platform
    /\ logs' = logs \o VolumeLines(CreateVolumeErr(resp))
    /\ dpc' = "push"
    /\ UNCHANGED <<provider, cfg, env, token, deployment, deployErr, runs>>
    /\ UNCHANGED outsideDeploy

\* A push whose failure is taken for a success.
FlyctlDeployIgnoresFailure(ok, output, written) ==
    /\ dpc = "push"
    /\ effects' = effects \cup {"cli"}
    /\ steps' = Append(steps, "push")
    /\ logs' = logs \o <<"[flyctl deploy --remote-only]", output>>
    /\ AfterDeployStage(
           [answers EXCEPT !.push = IF ok THEN "ok" ELSE "failed"], logs',
           IF ExtractFlyHost(output) = "" THEN cfg.Name \o ".fly.dev"
           ELSE ExtractFlyHost(output),
           "nil", written, TRUE)
    /\ UNCHANGED <<provider, cfg, token, platform>>
    /\ UNCHANGED outsideDeploy

\* A push that fails when its output names no host.
FlyctlDeployNeedsHost(ok, output, written) ==
    /\ dpc = "push"
    /\ effects' = effects \cup {"cli"}
    /\ steps' = Append(steps, "push")
    /\ logs' = logs \o <<"[flyctl deploy --remote-only]", output>>
    /\ AfterDeployStage(
           [answers EXCEPT !.push = IF ok THEN "ok" ELSE "failed"], logs',
           IF ok THEN ExtractFlyHost(output) ELSE "",
           IF ~ok THEN "fly remote deploy failed"
           ELSE IF ExtractFlyHost(output) = "" THEN "no hostname in output"
           ELSE "nil", written, TRUE)
    /\ UNCHANGED <<provider, cfg, token, platform>>
    /\ UNCHANGED outsideDeploy

\* deployViaAPI: flyctl deploy --remote-only, its combined output, and the
\* host: the one in the output, <name>.fly.dev when there is none.
FlyctlDeploy(ok, output, written) ==
    /\ dpc = "push"
    /\ effects' = effects \cup {"cli"}
    /\ steps' = Append(steps, "push")
    /\ logs' = logs \o <<"[flyctl deploy --remote-only]", output>>
    /\ AfterDeployStage(
           [answers EXCEPT !.push = IF ok THEN "ok" ELSE "failed"], logs',
           IF ~ok THEN ""
           ELSE IF ExtractFlyHost(output) = "" THEN cfg.Name \o ".fly.dev"
           ELSE ExtractFlyHost(output),
           IF ok THEN "nil" ELSE "fly remote deploy failed", written, TRUE)
    /\ UNCHANGED <<provider, cfg, token, platform>>
    /\ UNCHANGED outsideDeploy

\* deployViaRailwayCLI: ensureRailwayProject and ensureRailwayService.
RailwayEnsure(ok, written) ==
    /\ dpc = "railway"
    /\ effects' = effects \cup {"api"}
    /\ steps' = Append(steps, "project")
    /\ IF ~ok
       THEN /\ logs' = logs
            /\ AfterDeployStage(answers, logs, "", "ensure railway project",
                                written, TRUE)
       ELSE /\ written
            /\ logs' = logs \o <<"project ensured", "service ensured">>
            /\ dpc' = "up"
            /\ UNCHANGED <<deployment, deployErr, runs, env, answers>>
    /\ UNCHANGED <<provider, cfg, token, platform>>
    /\ UNCHANGED outsideDeploy

\* deployViaRailwayCLI from the environment on: its id (envOk), then the
\* volume (volOk), the domain and the project token, whose failures are
\* warnings in the log, then `railway up`; domain is the one Railway has
\* assigned by the end ("" for none), ids tells whether railway-ids.json
\* can be written.
RailwayUp(envOk, volOk, domain, ok, written, ids) ==
    /\ dpc = "up"
    /\ ~envOk => volOk /\ domain = ""
    /\ effects' = effects \cup {"api", "cli"}
    /\ steps' = steps \o (IF envOk THEN <<"environment", "volume", "domain">>
                          ELSE <<"environment">>) \o <<"up">>
    /\ logs' = logs
               \o (IF ~envOk
                   THEN <<"warning: could not resolve environment id">>
                   ELSE IF volOk THEN <<"environment", "volume ensured">>
                   ELSE <<"environment", "warning: could not create volume">>)
               \o <<"[railway up]">>
    /\ AfterDeployStage(
           [answers EXCEPT !.push = IF ok THEN "ok" ELSE "failed",
                           !.volume = IF ~envOk THEN "none"
                                      ELSE IF volOk THEN "ok" ELSE "failed"],
           logs', IF ok THEN domain ELSE "",
           IF ok THEN "nil" ELSE "railway deploy failed", written, ids)
    /\ UNCHANGED <<provider, cfg, token, platform>>
    /\ UNCHANGED outsideDeploy

\* A health check whose failure destroys the app before Deploy returns.
DeployHealthRollsBack(ok) ==
    /\ dpc = "health"
    /\ answers' = [answers EXCEPT !.health = IF ok THEN "ok" ELSE "failed"]
    /\ effects' = effects \cup (IF ok THEN {"probe"} ELSE {"probe", "api"})
    /\ steps' = steps \o (IF ok THEN <<"health">> ELSE <<"health", "destroy">>)
    /\ platform' = IF ok THEN platform
                   ELSE [platform EXCEPT !.apps = @ \ {cfg.Name}]
    /\ IF ok THEN ReturnDeployment(deployment)
       ELSE ReturnErr("deployment completed but RPC health check failed")
    /\ UNCHANGED <<provider, cfg, env, token, logs>>
    /\ UNCHANGED outsideDeploy

\* waitForRPCHealthy(ctx, deployment.RPCURL, timeout, interval) returns.
DeployHealth(ok) ==
    /\ dpc = "health"
    /\ answers' = [answers EXCEPT !.health = IF ok THEN "ok" ELSE "failed"]
    /\ effects' = effects \cup {"probe"}
    /\ steps' = Append(steps, "health")
    /\ IF ok THEN ReturnDeployment(deployment)
       ELSE ReturnErr("deployment completed but RPC health check failed")
    /\ UNCHANGED <<provider, cfg, env, token, logs, platform>>
    /\ UNCHANGED outsideDeploy

\* Deploy is called again with the same config, on the same machine,
\* against the platform as the calls before left it.
DeployAgain ==
    /\ dpc = "returned"
    /\ runs < MaxRuns
    /\ dpc' = "call"
    /\ deployment' = NoDeployment
    /\ deployErr' = "nil"
    /\ token' = ""
    /\ logs' = <<>>
    /\ answers' = NoAnswers
    /\ effects' = {}
    /\ steps' = <<>>
    /\ UNCHANGED <<provider, cfg, env, platform, runs>>
    /\ UNCHANGED outsideDeploy

NextDeploy ==
    \/ DeployBegin
    \/ DeployAuth
    \/ \E resp \in AppResponses(cfg.Name) : \E written \in BOOLEAN :
          EnsureAppExists(resp, written)
    \/ \E ipType \in {"v4", "v6"} :
          \E resp \in IPResponses(cfg.Name, ipType) : \E written \in BOOLEAN :
              AllocateIPAddress(ipType, resp, written)
    \/ \E resp \in ListResponses(cfg.Name) : ListVolumes(resp)
    \/ \E resp \in CreateResponses : CreateVolume(resp)
    \/ \E ok \in BOOLEAN : \E output \in FlyOutputs : \E written \in BOOLEAN :
          FlyctlDeploy(ok, output, written)
    \/ \E ok \in BOOLEAN : \E written \in BOOLEAN : RailwayEnsure(ok, written)
    \/ \E envOk \in BOOLEAN : \E volOk \in BOOLEAN : \E domain \in Domains :
          \E ok \in BOOLEAN : \E written \in BOOLEAN : \E ids \in BOOLEAN :
              RailwayUp(envOk, volOk, domain, ok, written, ids)
    \/ \E ok \in BOOLEAN : DeployHealth(ok)
    \/ DeployAgain
SpecDeploy == InitDeploy /\ [][NextDeploy]_vars
SpecAuth == InitAuth /\ [][NextDeploy]_vars

(***************************************************************************)
(* providers.FlyProvider.VerifyAccessToken: the probe of the Machines API, *)
(* then, for some answers, the probe of the GraphQL API. A probe is        *)
(* answered [err, status, body, errors]; the body of a GraphQL answer is   *)
(* "data", "no data" or "undecodable".                                     *)
(***************************************************************************)
\* The token arguments: empty, blank, and two tokens, plain and padded with
\* blanks.
VerifyTokens == {"", " ", "AccessToken", Padded("AccessToken"), "creds",
                 Padded("creds")}

\* What the Machines API answers to GET /apps/<probe>/machines.
MachinesResponses ==
    {Response("nil", 200, "[]", <<>>),
     Response("nil", 204, "", <<>>),
     Response("nil", 401, "unauthorized", <<>>),
     Response("nil", 403, "forbidden", <<>>),
     Response("nil", 404, "error: app not found", <<>>),
     Response("nil", 404, "", <<>>),
     Response("nil", 404, "404 page not found", <<>>),
     Response("nil", 404, "Error: 404 Page Not Found", <<>>),
     Response("nil", 404, "Not Found", <<>>),
     Response("nil", 404, " not found ", <<>>),
     Response("nil", 500, "internal error", <<>>),
     RequestFailed}

\* What the GraphQL API answers to the viewer query.
GraphQLResponses ==
    {Response("nil", 200, "data", <<>>),
     Response("nil", 200, "data", <<"not authorized">>),
     Response("nil", 200, "no data", <<>>),
     Response("nil", 200, "undecodable", <<>>),
     Response("nil", 401, "unauthorized", <<>>),
     Response("nil", 403, "forbidden", <<>>),
     Response("nil", 500, "internal error", <<>>),
     RequestFailed}

\* strings.ToLower(strings.TrimSpace(body)), on the bodies above.
LowerTrimmed(body) ==
    CASE body = "Error: 404 Page Not Found" -> "error: 404 page not found"
      [] body = "Not Found" -> "not found"
      [] body = " not found " -> "not found"
      [] OTHER -> body

\* A looksLikeRouteNotFound that takes no 404 for a routing 404.
LooksLikeRouteNotFoundNever(body) == FALSE

\* looksLikeRouteNotFound: strings.Contains(lower, "404 page not found")
\* || lower == "not found".
LooksLikeRouteNotFound(body) ==
    \/ LowerTrimmed(body) \in {"404 page not found",
                               "error: 404 page not found"}
    \/ LowerTrimmed(body) = "not found"

\* The error verifyAccessTokenGraphQL returns on resp ("nil" for none).
VerifyGraphQLErr(resp) ==
    IF resp.err # "nil" THEN "graphql token check failed"
    ELSE IF resp.status \in {401, 403}
    THEN "token rejected by Fly GraphQL API"
    ELSE IF resp.status < 200 \/ resp.status >= 300
    THEN "unexpected Fly GraphQL response"
    ELSE IF resp.body = "undecodable"
    THEN "decode graphql token check response"
    ELSE IF Len(resp.errors) > 0 THEN "graphql token check error"
    ELSE IF resp.body = "no data"
    THEN "graphql token check returned empty data"
    ELSE "nil"

InitVerify ==
    /\ NoHistory
    /\ NoWatcher
    /\ NoHealth
    /\ NoDeploy
    /\ NoRpc
    /\ NoCmd
    /\ now = 0
    /\ verify \in [token : VerifyTokens, pc : {"call"},
                   statusErr : {NotAsked}, ret : {"none"}]
    /\ requests = <<>>

\* return err (nil for no error)
VerifyReturn(v, err) == [v EXCEPT !.pc = "returned", !.ret = err]

\* VerifyAccessToken up to the first probe: the blank token.
VerifyBegin ==
    /\ verify.pc = "call"
    /\ verify' = IF TrimSpace(verify.token) = ""
                 THEN VerifyReturn([verify EXCEPT !.token = ""],
                                   "fly access token is required")
                 ELSE [verify EXCEPT !.token = TrimSpace(@),
                                     !.pc = "machines"]
    /\ UNCHANGED requests
    /\ UNCHANGED outsideVerify

\* A VerifyAccessToken that tries the GraphQL API after every status but
\* 2xx.
MachinesProbeAlwaysFallsBack(resp) ==
    /\ verify.pc = "machines"
    /\ requests' = Append(requests, [probe |-> "machines",
                                     token |-> verify.token, resp |-> resp])
    /\ verify' =
          IF resp.err # "nil"
          THEN VerifyReturn(verify, "token verification failed: "
                                    \o "machines auth probe failed")
          ELSE IF resp.status >= 200 /\ resp.status < 300
          THEN VerifyReturn(verify, "nil")
          ELSE [verify EXCEPT !.statusErr = resp, !.pc = "graphql"]
    /\ UNCHANGED outsideVerify

\* verifyAccessTokenMachinesProbe, answered resp, and the switch on the
\* status of its error.
MachinesProbe(resp) ==
    /\ verify.pc = "machines"
    /\ requests' = Append(requests, [probe |-> "machines",
                                     token |-> verify.token, resp |-> resp])
    /\ verify' =
          IF resp.err # "nil"
          THEN VerifyReturn(verify, "token verification failed: "
                                    \o "machines auth probe failed")
          ELSE IF resp.status >= 200 /\ resp.status < 300
          THEN VerifyReturn(verify, "nil")
          ELSE IF resp.status = 401
          THEN VerifyReturn([verify EXCEPT !.statusErr = resp],
                            "token rejected by Fly API (401)")
          ELSE IF resp.status = 404 /\ ~LooksLikeRouteNotFound(resp.body)
          THEN VerifyReturn([verify EXCEPT !.statusErr = resp], "nil")
          ELSE [verify EXCEPT !.statusErr = resp, !.pc = "graphql"]
    /\ UNCHANGED outsideVerify

\* A fallback whose answer is not looked at after a 403.
GraphQLProbeIgnoredOn403(resp) ==
    /\ verify.pc = "graphql"
    /\ requests' = Append(requests, [probe |-> "graphql",
                                     token |-> verify.token, resp |-> resp])
    /\ verify' =
          IF verify.statusErr.status = 403
          THEN VerifyReturn(verify, "token verification failed: machines "
                                    \o "API returned 403")
          ELSE IF VerifyGraphQLErr(resp) = "nil"
          THEN VerifyReturn(verify, "nil")
          ELSE VerifyReturn(verify, "token verification failed")
    /\ UNCHANGED outsideVerify

\* verifyAccessTokenGraphQL, answered resp, and the verdict.
GraphQLProbe(resp) ==
    /\ verify.pc = "graphql"
    /\ requests' = Append(requests, [probe |-> "graphql",
                                     token |-> verify.token, resp |-> resp])
    /\ verify' =
          IF VerifyGraphQLErr(resp) = "nil" THEN VerifyReturn(verify, "nil")
          ELSE IF verify.statusErr.status = 403
          THEN VerifyReturn(verify,
                   "token verification failed: machines API returned 403 "
                   \o "and graphql fallback failed: " \o VerifyGraphQLErr(resp))
          ELSE IF verify.statusErr.status = 404
          THEN VerifyReturn(verify,
                   "token verification failed: machines endpoint returned "
                   \o "route 404 and graphql fallback failed: "
                   \o VerifyGraphQLErr(resp))
          ELSE VerifyReturn(verify, "token verification failed: "
                                    \o "fly api returned an error status")
    /\ UNCHANGED outsideVerify

NextVerify ==
    \/ VerifyBegin
    \/ \E resp \in MachinesResponses : MachinesProbe(resp)
    \/ \E resp \in GraphQLResponses : GraphQLProbe(resp)
SpecVerify == InitVerify /\ [][NextVerify]_vars

(***************************************************************************)
(* The liveness RPC calls: cmd.rpcCall(ctx, rpcURL, method, params,        *)
(* result) as checkAndRestart and fetchRPCMetrics call it (getSlot into a  *)
(* uint64, getHealth into a string) and providers.checkRPCHealth. Each is  *)
(* one HTTP request, answered [err, status, valid, error, result].         *)
(***************************************************************************)
\* The callers of a liveness call.
RpcCallers == {"checkRPCHealth", "fetchRPCMetrics.getHealth", "getSlot"}

\* The "result" members answered and the "error" members answered.
RpcResults == {JMissing, JNull, JStr("ok"), JStr("behind"), JStr(""),
               JStr("5"), JNum(0), JNum(5), JNum(-1), JFrac, JBool, JObj}
RpcErrors == {JMissing, JNull, JObj, JStr("node is behind")}

\* What the endpoint answers.
RpcResponses ==
    {RpcResponse("request failed", 0, FALSE, JMissing, JMissing)}
    \cup {RpcResponse("nil", st, FALSE, JMissing, JMissing) :
             st \in {200, 204, 301, 404, 500}}
    \cup {RpcResponse("nil", st, TRUE, e, r) :
             st \in {200, 301, 404, 500}, e \in RpcErrors, r \in RpcResults}

\* resp.StatusCode < 200 || resp.StatusCode >= 300
Non2xx(status) == status < 200 \/ status >= 300

\* json.Unmarshal(raw, &slot) with slot a uint64 holding old: the error and
\* the value slot holds afterwards. A null leaves slot as it is and is no
\* error; an empty raw message is an error.
UnmarshalUint64(raw, old) ==
    IF raw.kind = "number" /\ raw.n >= 0 THEN [err |-> "nil", v |-> raw.n]
    ELSE IF raw.kind = "null" THEN [err |-> "nil", v |-> old]
    ELSE [err |-> "decode rpc result", v |-> old]

\* json.Unmarshal(raw, &health) with health a string holding old.
UnmarshalString(raw, old) ==
    IF raw.kind = "string" THEN [err |-> "nil", v |-> raw.s]
    ELSE IF raw.kind = "null" THEN [err |-> "nil", v |-> old]
    ELSE [err |-> "decode rpc result", v |-> old]

\* rpcCall up to the decoding of the result: the error it returns before
\* it looks at the result ("nil" when it goes on). The "error" member
\* decodes into a pointer to a struct: missing and null leave it nil, an
\* object sets it, anything else fails the decoding of the body.
RpcCallErr(resp) ==
    IF resp.err # "nil" THEN "rpc request failed"
    ELSE IF Non2xx(resp.status) THEN "rpc status"
    ELSE IF ~resp.valid THEN "decode rpc response"
    ELSE IF resp.error.kind \notin {"missing", "null", "object"}
    THEN "decode rpc response"
    ELSE IF resp.error.kind = "object" THEN "rpc error"
    ELSE "nil"

\* checkRPCHealth answered resp: the error it returns. The "result" member
\* decodes into a string: missing and null leave it "", anything but a
\* string fails the decoding of the body.
CheckRPCHealthErr(resp) ==
    IF resp.err # "nil" THEN "request failed"
    ELSE IF Non2xx(resp.status) THEN "unexpected status"
    ELSE IF ~resp.valid THEN "decode health response"
    ELSE IF resp.result.kind \notin {"missing", "null", "string"}
    THEN "decode health response"
    ELSE IF resp.error.kind \notin {"missing", "null"}
    THEN "rpc returned error"
    ELSE IF resp.result.s # "ok" THEN "unexpected health result"
    ELSE "nil"

InitRpc ==
    /\ NoHistory
    /\ NoWatcher
    /\ NoHealth
    /\ NoDeploy
    /\ NoVerify
    /\ NoCmd
    /\ now = 0
    /\ rpc \in [caller : RpcCallers, resp : RpcResponses, pc : {"call"},
                err : {"nil"}, slot : {0}, health : {""}]

\* var slot uint64; err := rpcCall(ctx, rpcURL, "getSlot", []any{}, &slot)
GetSlot ==
    /\ rpc.pc = "call"
    /\ rpc.caller = "getSlot"
    /\ LET early == RpcCallErr(rpc.resp)
           dec == UnmarshalUint64(rpc.resp.result, rpc.slot)
       IN rpc' = IF early # "nil"
                 THEN [rpc EXCEPT !.pc = "done", !.err = early]
                 ELSE [rpc EXCEPT !.pc = "done", !.err = dec.err,
                                  !.slot = dec.v]
    /\ UNCHANGED outsideRpc

\* fetchRPCMetrics: var health string; rpcCall(ctx, rpcURL, "getHealth",
\* nil, &health), then the test health != "ok".
FetchHealth ==
    /\ rpc.pc = "call"
    /\ rpc.caller = "fetchRPCMetrics.getHealth"
    /\ LET early == RpcCallErr(rpc.resp)
           dec == UnmarshalString(rpc.resp.result, rpc.health)
       IN rpc' = IF early # "nil"
                 THEN [rpc EXCEPT !.pc = "done", !.err = early]
                 ELSE IF dec.err # "nil"
                 THEN [rpc EXCEPT !.pc = "done", !.err = dec.err]
                 ELSE IF dec.v # "ok"
                 THEN [rpc EXCEPT !.pc = "done", !.health = dec.v,
                                  !.err = "unexpected health response"]
                 ELSE [rpc EXCEPT !.pc = "done", !.health = dec.v]
    /\ UNCHANGED outsideRpc

\* checkRPCHealth(ctx, rpcURL)
CheckRPCHealth ==
    /\ rpc.pc = "call"
    /\ rpc.caller = "checkRPCHealth"
    /\ rpc' = [rpc EXCEPT !.pc = "done", !.err = CheckRPCHealthErr(rpc.resp),
                          !.health = IF rpc.resp.valid
                                        /\ rpc.resp.result.kind = "string"
                                     THEN rpc.resp.result.s ELSE @]
    /\ UNCHANGED outsideRpc

NextRpc ==
    \/ GetSlot
    \/ FetchHealth
    \/ CheckRPCHealth
SpecRpc == InitRpc /\ [][NextRpc]_vars

(***************************************************************************)
(* config.State: the deployments known locally, by name, and the name of  *)
(* the last one deployed. Deployments is a function from the names present *)
(* to their DeploymentRecord; the clock stamps CreatedAt and UpdatedAt.    *)
(***************************************************************************)
\* The name arguments: empty, blank, names, and names padded with blanks.
NameArgs == {"", " "} \cup AppNames \cup {Padded(n) : n \in AppNames}

\* The DeploymentRecord the deploy command builds for a Deployment d in
\* region (CreatedAt and UpdatedAt are zero).
RecordOf(d, region) ==
    [Name |-> d.Name, Provider |-> d.Provider, RPCURL |-> d.RPCURL,
     WebSocketURL |-> d.WebSocketURL, Region |-> region,
     CreatedAt |-> ZeroTime, UpdatedAt |-> ZeroTime]

\* The records UpsertDeployment is called with.
RecordArgs ==
    {RecordOf([Name |-> n, Provider |-> p,
               RPCURL |-> "https://" \o TrimSpace(n) \o ".fly.dev",
               WebSocketURL |-> "wss://" \o TrimSpace(n) \o ".fly.dev"], "ord") :
        n \in NameArgs, p \in {"fly", "railway"}}

\* An UpsertDeployment that leaves LastDeployment as it is.
UpsertDeploymentKeepsLast(s, record, t) ==
    LET name == TrimSpace(record.Name)
    IN IF name = ""
       THEN [state |-> s, err |-> "deployment name is required"]
       ELSE [state |->
                [s EXCEPT
                    !.Deployments =
                        [k \in DOMAIN s.Deployments \cup {name} |->
                            IF k = name
                            THEN [record EXCEPT !.CreatedAt = t,
                                                !.UpdatedAt = t]
                            ELSE s.Deployments[k]]],
             err |-> "nil"]

\* s.UpsertDeployment(record) at time t: the State afterwards and the
\* error.
UpsertDeployment(s, record, t) ==
    LET name == TrimSpace(record.Name)
        ok == name \in DOMAIN s.Deployments
        stamped ==
            [record EXCEPT
                !.CreatedAt =
                    IF ok /\ s.Deployments[name].CreatedAt # ZeroTime
                    THEN s.Deployments[name].CreatedAt
                    ELSE IF record.CreatedAt = ZeroTime THEN t ELSE @,
                !.UpdatedAt = t]
    IN IF name = ""
       THEN [state |-> s, err |-> "deployment name is required"]
       ELSE [state |->
                [LastDeployment |-> name,
                 Deployments |->
                    [k \in DOMAIN s.Deployments \cup {name} |->
                        IF k = name THEN stamped ELSE s.Deployments[k]]],
             err |-> "nil"]

\* Deployments without the record of name.
Without(d, name) == [k \in DOMAIN d \ {name} |-> d[k]]

\* A RemoveDeployment that leaves LastDeployment as it is.
RemoveDeploymentKeepsLast(s, name) ==
    {[s EXCEPT !.Deployments = Without(@, TrimSpace(name))]}

\* s.RemoveDeployment(name): the States it may leave. When the last
\* deployment is removed, the first name the range over the map yields
\* takes its place, which may be any of those left.
RemoveDeployment(s, name) ==
    LET left == Without(s.Deployments, TrimSpace(name))
    IN IF s.LastDeployment # TrimSpace(name)
       THEN {[s EXCEPT !.Deployments = left]}
       ELSE IF DOMAIN left = {}
       THEN {[LastDeployment |-> "", Deployments |-> left]}
       ELSE {[LastDeployment |-> k, Deployments |-> left] : k \in DOMAIN left}

\* s.ResolveDeployment(name): the record and the error.
ResolveDeployment(s, name) ==
    LET fromLast == IF TrimSpace(name) # "" THEN TrimSpace(name)
                    ELSE TrimSpace(s.LastDeployment)
        target == IF fromLast = "" /\ Cardinality(DOMAIN s.Deployments) = 1
                  THEN CHOOSE k \in DOMAIN s.Deployments : TRUE
                  ELSE fromLast
    IN IF DOMAIN s.Deployments = {}
       THEN [rec |-> NoRecord, err |-> "ErrNoDeployments"]
       ELSE IF target = ""
       THEN [rec |-> NoRecord, err |-> "deployment name is required"]
       ELSE IF target \notin DOMAIN s.Deployments
       THEN [rec |-> NoRecord, err |-> "ErrDeploymentNotFound"]
       ELSE [rec |-> s.Deployments[target], err |-> "nil"]

\* A State fresh from emptyState(), before any call.
InitState ==
    /\ NoHistory
    /\ NoWatcher
    /\ NoHealth
    /\ NoDeploy
    /\ NoVerify
    /\ NoRpc
    /\ now = 0
    /\ cmd = [name |-> "none", pc |-> "idle", in |-> NoInputs, err |-> "nil"]
    /\ state = EmptyState
    /\ stateFile = EmptyState
    /\ stateCall = NoCall

\* The clock advances between two calls.
StateClock ==
    /\ now < MaxTimeState
    /\ now' = now + 1
    /\ UNCHANGED <<histVars, watchVars, healthVars, deployVars, verifyVars,
                   rpcVars, cmdVars>>

\* state.UpsertDeployment(record)
CallUpsert(record) ==
    /\ cmd.name = "none"
    /\ state' = UpsertDeployment(state, record, now).state
    /\ stateCall' = [op |-> "UpsertDeployment", name |-> record.Name,
                     rec |-> record,
                     err |-> UpsertDeployment(state, record, now).err]
    /\ UNCHANGED <<cmd, stateFile>>
    /\ UNCHANGED outsideCmd

\* state.RemoveDeployment(name)
CallRemove(name) ==
    /\ cmd.name = "none"
    /\ state' \in RemoveDeployment(state, name)
    /\ stateCall' = [op |-> "RemoveDeployment", name |-> name,
                     rec |-> NoRecord, err |-> "nil"]
    /\ UNCHANGED <<cmd, stateFile>>
    /\ UNCHANGED outsideCmd

\* state.ResolveDeployment(name)
CallResolve(name) ==
    /\ cmd.name = "none"
    /\ stateCall' = [op |-> "ResolveDeployment", name |-> name,
                     rec |-> ResolveDeployment(state, name).rec,
                     err |-> ResolveDeployment(state, name).err]
    /\ UNCHANGED <<cmd, state, stateFile>>
    /\ UNCHANGED outsideCmd

NextState ==
    \/ StateClock
    \/ \E record \in RecordArgs : CallUpsert(record)
    \/ \E name \in NameArgs : CallRemove(name)
    \/ \E name \in NameArgs : CallResolve(name)
SpecState == InitState /\ [][NextState]_vars

(***************************************************************************)
(* cmd.deployCmd: RunE reads the provider, the app name and the region,   *)
(* builds and validates the validator config, calls provider.Deploy and,   *)
(* after a deploy that is no dry run, records the Deployment in the state  *)
(* file. The inputs are the values viper and the flags hold; the flags     *)
(* that override the validator config other than --slots-per-epoch are not *)
(* given, and region is not set in .sol-cloud.yml.                         *)
(***************************************************************************)
\* Two base58 addresses.
Addresses == {"11111111111111111111111111111111",
              "TokenkegQfeZyiNwAJbNbGKPFXCWuBvf9Ss623VQ5DA"}
\* base58AddressPattern.MatchString, on the values used here.
IsAddress(s) == s \in Addresses
\* strings.HasSuffix(strings.ToLower(soPath), ".so"), on the values used
\* here.
HasSoSuffix(p) == p \in {"program.so", "PROGRAM.SO"}

\* A validator.Config as viper fills it.
ValidatorConfig(slots, ticks, units, ledger, accounts, programs, deploy) ==
    [SlotsPerEpoch |-> slots, TicksPerSlot |-> ticks,
     ComputeUnitLimit |-> units, LedgerLimitSize |-> ledger,
     CloneAccounts |-> accounts, CloneUpgradeablePrograms |-> programs,
     ProgramDeploy |-> deploy]
\* validator.ProgramDeployConfig{}
NoProgramDeploy ==
    [SOPath |-> "", ProgramIDKeypairPath |-> "", UpgradeAuthorityPath |-> ""]
\* A validator section that sets nothing.
BaseValidator == ValidatorConfig(0, 0, 0, 0, <<>>, <<>>, NoProgramDeploy)

\* The address lists: none, valid ones, a duplicate, an empty and an
\* invalid address.
AddressLists ==
    {<<>>, <<"11111111111111111111111111111111">>,
     <<"11111111111111111111111111111111",
       "TokenkegQfeZyiNwAJbNbGKPFXCWuBvf9Ss623VQ5DA">>,
     <<"11111111111111111111111111111111",
       "11111111111111111111111111111111">>,
     <<" ">>, <<"11111111111111111111111111111111", "not an address">>}

\* The program_deploy sections: each path not set, blank, a path, or a
\* value of the wrong kind.
ProgramDeploys ==
    [SOPath : {"", " ", "program.so", "program.bin"},
     ProgramIDKeypairPath : {"", " ", "id.json",
                             "11111111111111111111111111111111"},
     UpgradeAuthorityPath : {"", " ", "authority.json",
                             "11111111111111111111111111111111"}]

\* The validator sections: the numbers around their limits, the address
\* lists, or the program_deploy section differ from the base.
ValidatorConfigs ==
    {ValidatorConfig(slots, ticks, units, ledger, <<>>, <<>>,
                     NoProgramDeploy) :
        slots \in {0, 31, 32}, ticks \in {0, 1024, 1025},
        units \in {0, 9999, 10000}, ledger \in {0, 1}}
    \cup {ValidatorConfig(0, 0, 0, 0, a, <<>>, NoProgramDeploy) :
             a \in AddressLists}
    \cup {ValidatorConfig(0, 0, 0, 0, <<>>, a, NoProgramDeploy) :
             a \in AddressLists}
    \cup {ValidatorConfig(0, 0, 0, 0, <<>>, <<>>, d) : d \in ProgramDeploys}

\* c.ApplyDefaults(), on the fields the command fills.
ApplyDefaults(c) ==
    [c EXCEPT !.SlotsPerEpoch = IF @ = 0 THEN 432000 ELSE @,
              !.TicksPerSlot = IF @ = 0 THEN 64 ELSE @,
              !.ComputeUnitLimit = IF @ = 0 THEN 200000 ELSE @,
              !.LedgerLimitSize = IF @ = 0 THEN 10000 ELSE @]

\* Whether element i of values is what validateAddressList returns an
\* error for: empty, no address, or a duplicate of an earlier one.
BadAddress(values, i) ==
    \/ TrimSpace(values[i]) = ""
    \/ ~IsAddress(TrimSpace(values[i]))
    \/ \E j \in 1..(i - 1) : TrimSpace(values[j]) = TrimSpace(values[i])

\* validateAddressList(key, values)
ValidateAddressList(key, values) ==
    IF \E i \in DOMAIN values : BadAddress(values, i)
    THEN key \o " contains an empty, invalid or duplicate address"
    ELSE "nil"

\* validateProgramDeploy(cfg)
ValidateProgramDeploy(p) ==
    LET soPath == TrimSpace(p.SOPath)
        programIDKeypair == TrimSpace(p.ProgramIDKeypairPath)
        upgradeAuthority == TrimSpace(p.UpgradeAuthorityPath)
    IN IF soPath = "" /\ programIDKeypair = "" /\ upgradeAuthority = ""
       THEN "nil"
       ELSE IF soPath = "" THEN "program_deploy.so_path is required"
       ELSE IF ~HasSoSuffix(soPath)
       THEN "program_deploy.so_path must point to a .so file"
       ELSE IF programIDKeypair = ""
       THEN "program_deploy.program_id_keypair is required"
       ELSE IF IsAddress(programIDKeypair)
       THEN "program_deploy.program_id_keypair must be a keypair file path"
       ELSE IF upgradeAuthority = ""
       THEN "program_deploy.upgrade_authority is required"
       ELSE IF IsAddress(upgradeAuthority)
       THEN "program_deploy.upgrade_authority must be a keypair file path"
       ELSE "nil"

\* c.Validate(); ClonePrograms and AirdropAccounts are empty in the config
\* the command builds.
Validate(c) ==
    IF c.SlotsPerEpoch < 32 THEN "slots_per_epoch must be >= 32"
    ELSE IF c.TicksPerSlot = 0 THEN "ticks_per_slot must be >= 1"
    ELSE IF c.TicksPerSlot > 1024 THEN "ticks_per_slot must be <= 1024"
    ELSE IF c.ComputeUnitLimit < 10000
    THEN "compute_unit_limit must be >= 10000"
    ELSE IF c.LedgerLimitSize < 1 THEN "ledger_limit_size must be >= 1"
    ELSE IF ValidateAddressList("clone_accounts", c.CloneAccounts) # "nil"
    THEN ValidateAddressList("clone_accounts", c.CloneAccounts)
    ELSE IF ValidateAddressList("clone_upgradeable_programs",
                                c.CloneUpgradeablePrograms) # "nil"
    THEN ValidateAddressList("clone_upgradeable_programs",
                             c.CloneUpgradeablePrograms)
    ELSE ValidateProgramDeploy(c.ProgramDeploy)

\* The inputs of a deploy command.
DeployInputs(prov, app, region, v, legacy, slots, dry, noHealth, noVolume) ==
    [provider |-> prov, app_name |-> app, region |-> region, validator |-> v,
     program_id |-> legacy, slotsPerEpoch |-> slots, dryRun |-> dry,
     skipHealthCheck |-> noHealth, skipVolume |-> noVolume]

\* The validatorCfg RunE builds from the inputs in: the legacy program_id
\* when no program_id_keypair is set, the defaults, the flag.
ValidatorCfg(in) ==
    LET raw == IF TrimSpace(in.validator.ProgramDeploy.ProgramIDKeypairPath)
                     = ""
               THEN [in.validator EXCEPT
                        !.ProgramDeploy.ProgramIDKeypairPath = in.program_id]
               ELSE in.validator
    IN [ApplyDefaults(raw) EXCEPT
           !.SlotsPerEpoch = IF in.slotsPerEpoch > 0 THEN in.slotsPerEpoch
                             ELSE @]

\* providerName, "fly" when none is configured.
ProviderName(in) == IF in.provider = "" THEN "fly" ELSE in.provider

\* The error RunE returns before it calls provider.Deploy ("nil" when it
\* calls it).
DeployCmdErr(in) ==
    IF TrimSpace(in.app_name) = "" THEN "app_name is required"
    ELSE IF ProviderName(in) \notin {"fly", "railway"}
    THEN "unsupported provider"
    ELSE IF TrimSpace(in.app_name) \notin AppNames THEN "invalid app_name"
    ELSE IF Validate(ValidatorCfg(in)) # "nil"
    THEN "invalid validator config: " \o Validate(ValidatorCfg(in))
    ELSE "nil"

\* The state files a command finds: none, one that knows the app, one that
\* knows another app, and one that knows both.
StoredRecord(n) ==
    [Name |-> n, Provider |-> "fly", RPCURL |-> "https://" \o n \o ".fly.dev",
     WebSocketURL |-> "wss://" \o n \o ".fly.dev", Region |-> "ord",
     CreatedAt |-> 0, UpdatedAt |-> 0]
StateFiles ==
    {EmptyState}
    \cup {[LastDeployment |-> l,
           Deployments |-> [n \in names |-> StoredRecord(n)]] :
             <<l, names>> \in {<<l, names>> \in AppNames \X SUBSET AppNames :
                                  l \in names}}

\* The machines a command runs on.
Machines ==
    [AccessToken : {""},
     environ : {[n \in EnvNames("fly") \cup EnvNames("railway") |-> ""]},
     creds : {"", "creds"}, credsErr : BOOLEAN, cli : BOOLEAN,
     files : BOOLEAN, deployLog : {<<>>}]
\* A machine on which a deploy can succeed.
GoodMachine ==
    [AccessToken |-> "",
     environ |-> [n \in EnvNames("fly") \cup EnvNames("railway") |-> ""],
     creds |-> "creds", credsErr |-> FALSE, cli |-> TRUE, files |-> TRUE,
     deployLog |-> <<>>]

\* The deploy commands run: every validator section on one machine, every
\* provider, app name and region on one machine, and one valid
\* configuration with every combination of the flags on every machine.
InitDeployCmd ==
    /\ NoHistory
    /\ NoWatcher
    /\ NoHealth
    /\ NoVerify
    /\ NoRpc
    /\ now = 1
    /\ provider = "fly"
    /\ cfg = NilConfig
    /\ dpc = "idle"
    /\ deployment = NoDeployment
    /\ deployErr = "nil"
    /\ token = ""
    /\ logs = <<>>
    /\ platform = NoPlatform
    /\ answers = NoAnswers
    /\ effects = {}
    /\ steps = <<>>
    /\ runs = 0
    /\ state = EmptyState
    /\ stateCall = NoCall
    /\ stateFile \in StateFiles
    /\ \/ /\ env = GoodMachine
          /\ cmd \in [name : {"deploy"}, pc : {"start"}, err : {"nil"},
                      in : {DeployInputs("fly", "sol-cloud-1a2b3c4d", "", v,
                                         legacy, slots, FALSE, FALSE, TRUE) :
                               v \in ValidatorConfigs,
                               legacy \in {"", "legacy.json"},
                               slots \in {0, 16, 64}}]
       \/ /\ env = GoodMachine
          /\ cmd \in [name : {"deploy"}, pc : {"start"}, err : {"nil"},
                      in : {DeployInputs(prov, app, region, BaseValidator, "",
                                         0, FALSE, FALSE, TRUE) :
                               prov \in {"", "fly", "railway", "aws"},
                               app \in {"", " ", "sol-cloud-1a2b3c4d",
                                        Padded("sol-cloud-1a2b3c4d"),
                                        "my app"},
                               region \in {"", " ", "lhr"}}]
       \/ /\ env \in Machines
          /\ cmd \in [name : {"deploy"}, pc : {"start"}, err : {"nil"},
                      in : {DeployInputs(prov, "sol-cloud-1a2b3c4d", "",
                                         BaseValidator, "", 0, dry,
                                         skipHealth, skipVolume) :
                               prov \in {"fly", "railway"},
                               dry \in BOOLEAN, skipHealth \in BOOLEAN,
                               skipVolume \in BOOLEAN}]

\* The region RunE passes on: the flag, or the provider's default.
RegionOf(in) ==
    IF TrimSpace(in.region) # "" THEN TrimSpace(in.region)
    ELSE IF ProviderName(in) = "railway" THEN "us-west" ELSE "ord"

\* A RunE that calls provider.Deploy without validating the validator
\* config.
DeployCmdBeginUnvalidated ==
    /\ cmd.name = "deploy"
    /\ cmd.pc = "start"
    /\ IF TrimSpace(cmd.in.app_name) \in AppNames
          /\ ProviderName(cmd.in) \in {"fly", "railway"}
       THEN /\ cmd' = [cmd EXCEPT !.pc = "deploy"]
            /\ provider' = ProviderName(cmd.in)
            /\ cfg' = [Name |-> TrimSpace(cmd.in.app_name),
                       Region |-> RegionOf(cmd.in),
                       DryRun |-> cmd.in.dryRun,
                       SkipHealthCheck |-> cmd.in.skipHealthCheck,
                       SkipVolume |-> cmd.in.skipVolume, Nil |-> FALSE]
            /\ dpc' = "call"
       ELSE /\ cmd' = [cmd EXCEPT !.pc = "done", !.err = DeployCmdErr(cmd.in)]
            /\ UNCHANGED <<provider, cfg, dpc>>
    /\ UNCHANGED <<env, deployment, deployErr, token, logs, platform,
                   answers, effects, steps, runs>>
    /\ UNCHANGED <<state, stateFile, stateCall>>
    /\ UNCHANGED outsideRun

\* RunE up to the call of provider.Deploy(cmd.Context(), cfg).
DeployCmdBegin ==
    /\ cmd.name = "deploy"
    /\ cmd.pc = "start"
    /\ IF DeployCmdErr(cmd.in) = "nil"
       THEN /\ cmd' = [cmd EXCEPT !.pc = "deploy"]
            /\ provider' = ProviderName(cmd.in)
            /\ cfg' = [Name |-> TrimSpace(cmd.in.app_name),
                       Region |-> RegionOf(cmd.in),
                       DryRun |-> cmd.in.dryRun,
                       SkipHealthCheck |-> cmd.in.skipHealthCheck,
                       SkipVolume |-> cmd.in.skipVolume, Nil |-> FALSE]
            /\ dpc' = "call"
       ELSE /\ cmd' = [cmd EXCEPT !.pc = "done", !.err = DeployCmdErr(cmd.in)]
            /\ UNCHANGED <<provider, cfg, dpc>>
    /\ UNCHANGED <<env, deployment, deployErr, token, logs, platform,
                   answers, effects, steps, runs>>
    /\ UNCHANGED <<state, stateFile, stateCall>>
    /\ UNCHANGED outsideRun

\* A RunE that records the deployment whatever provider.Deploy returned.
DeployCmdEndAlwaysRecords(loadOk, saveOk) ==
    /\ cmd.name = "deploy"
    /\ cmd.pc = "deploy"
    /\ dpc = "returned"
    /\ loadOk /\ saveOk
    /\ LET d == IF deployErr = "nil" THEN deployment
                ELSE [Placeholder EXCEPT !.Name = cfg.Name]
           up == UpsertDeployment(stateFile, RecordOf(d, cfg.Region), now)
       IN /\ state' = up.state
          /\ stateFile' = up.state
          /\ stateCall' = [op |-> "UpsertDeployment", name |-> d.Name,
                           rec |-> RecordOf(d, cfg.Region), err |-> up.err]
          /\ cmd' = [cmd EXCEPT !.pc = "done", !.err = deployErr]
    /\ UNCHANGED deployVars
    /\ UNCHANGED outsideRun

\* RunE once provider.Deploy has returned: the error is returned, a dry
\* run ends, or the state is loaded (loadOk tells whether the state file
\* can be read and decoded), the deployment recorded in it and the state
\* saved (saveOk tells whether the state file can be written).
DeployCmdEnd(loadOk, saveOk) ==
    /\ cmd.name = "deploy"
    /\ cmd.pc = "deploy"
    /\ dpc = "returned"
    /\ IF deployErr # "nil"
       THEN /\ cmd' = [cmd EXCEPT !.pc = "done", !.err = deployErr]
            /\ loadOk /\ saveOk
            /\ UNCHANGED <<state, stateFile, stateCall>>
       ELSE IF cfg.DryRun
       THEN /\ cmd' = [cmd EXCEPT !.pc = "done"]
            /\ loadOk /\ saveOk
            /\ UNCHANGED <<state, stateFile, stateCall>>
       ELSE IF ~loadOk
       THEN /\ cmd' = [cmd EXCEPT !.pc = "done",
                                  !.err = "load local deployment state"]
            /\ saveOk
            /\ UNCHANGED <<state, stateFile, stateCall>>
       ELSE LET record == RecordOf(deployment, cfg.Region)
                up == UpsertDeployment(stateFile, record, now)
            IN /\ state' = up.state
               /\ stateCall' = [op |-> "UpsertDeployment",
                                name |-> record.Name, rec |-> record,
                                err |-> up.err]
               /\ IF up.err # "nil"
                  THEN /\ cmd' = [cmd EXCEPT
                                     !.pc = "done",
                                     !.err = "update local deployment state"]
                       /\ saveOk
                       /\ UNCHANGED stateFile
                  ELSE IF ~saveOk
                  THEN /\ cmd' = [cmd EXCEPT
                                     !.pc = "done",
                                     !.err = "save local deployment state"]
                       /\ UNCHANGED stateFile
                  ELSE /\ cmd' = [cmd EXCEPT !.pc = "done"]
                       /\ stateFile' = up.state
    /\ UNCHANGED deployVars
    /\ UNCHANGED outsideRun

(***************************************************************************)
(* cmd.destroyCmd: RunE settles the name (the --name flag, the argument,   *)
(* or the last deployment of the local state), asks for confirmation       *)
(* unless --yes, calls FlyProvider.Destroy and, when it succeeded, removes *)
(* the record from the local state and saves it.                           *)
(***************************************************************************)
\* The inputs of a destroy command: the --name flag, the arguments, --yes,
\* and target, the name RunE has settled on ("" before it has).
DestroyInputs(flag, args, yes) ==
    [provider |-> "", name |-> flag, args |-> args, yes |-> yes,
     target |-> ""]

\* What the Machines API answers to DELETE /apps/<name>.
DestroyResponses ==
    {Response("nil", 202, "", <<>>),
     Response("nil", 404, "not found", <<>>),
     Response("nil", 409, "app has machines", <<>>),
     Response("nil", 500, "internal error", <<>>),
     RequestFailed}

\* destroyAppViaAPI: the error for the answer resp; on 400 and 409 the
\* machines are listed (listOk) and deleted and the request is made again,
\* answered retry.
DestroyAppErr(resp, listOk, retry) ==
    IF resp.err # "nil" THEN "request failed"
    ELSE IF resp.status >= 200 /\ resp.status < 300 THEN "nil"
    ELSE IF resp.status = 404 THEN "app not found"
    ELSE IF resp.status \in {400, 409} /\ listOk
    THEN IF retry.err = "nil" /\ retry.status >= 200 /\ retry.status < 300
         THEN "nil"
         ELSE IF retry.err # "nil" THEN "destroy app retry failed"
         ELSE "destroy request returned status"
    ELSE "destroy request returned status"

\* FlyProvider.Destroy(ctx, name): the error it returns.
DestroyErr(name, resp, listOk, retry) ==
    IF TrimSpace(name) = "" THEN "deployment name is required"
    ELSE IF ResolveAccessToken.err # "nil"
    THEN "fly auth required: run sol-cloud auth fly: "
             \o ResolveAccessToken.err
    ELSE IF DestroyAppErr(resp, listOk, retry) # "nil"
    THEN "destroy fly app via API: " \o DestroyAppErr(resp, listOk, retry)
    ELSE "nil"

\* The destroy commands run: every way to name the app, with and without
\* --yes, on every state file, on machines with and without a token.
InitDestroyCmd ==
    /\ NoHistory
    /\ NoWatcher
    /\ NoHealth
    /\ NoVerify
    /\ NoRpc
    /\ now = 1
    /\ provider = "fly"
    /\ cfg = NilConfig
    /\ dpc = "idle"
    /\ deployment = NoDeployment
    /\ deployErr = "nil"
    /\ token = ""
    /\ logs = <<>>
    /\ platform = NoPlatform
    /\ answers = NoAnswers
    /\ effects = {}
    /\ steps = <<>>
    /\ runs = 0
    /\ state = EmptyState
    /\ stateCall = NoCall
    /\ stateFile \in StateFiles
    /\ env \in {m \in Machines : m.cli /\ m.files}
    /\ cmd \in [name : {"destroy"}, pc : {"start"}, err : {"nil"},
                in : {DestroyInputs(flag, args, yes) :
                         flag \in {"", " ", "sol-cloud-1a2b3c4d",
                                   Padded("sol-cloud-1a2b3c4d")},
                         args \in {<<>>, <<"sol-cloud-9z8y7x6w">>},
                         yes \in BOOLEAN}]

\* The name RunE starts with: the flag, else the first argument.
DestroyName(in) ==
    IF TrimSpace(in.name) # "" THEN TrimSpace(in.name)
    ELSE IF Len(in.args) > 0 THEN TrimSpace(in.args[1])
    ELSE ""

\* A RunE that removes the record before it asks for confirmation.
DestroyCmdBeginRemovesFirst(loadOk, readOk, answer) ==
    /\ cmd.name = "destroy"
    /\ cmd.pc = "start"
    /\ loadOk /\ readOk
    /\ DestroyName(cmd.in) # ""
    /\ \E s \in RemoveDeployment(stateFile, DestroyName(cmd.in)) :
          /\ state' = s
          /\ stateFile' = s
    /\ cmd' = IF cmd.in.yes \/ answer \in {"y", "yes"}
              THEN [cmd EXCEPT !.pc = "destroy",
                               !.in.target = DestroyName(cmd.in)]
              ELSE [cmd EXCEPT !.pc = "done"]
    /\ UNCHANGED stateCall
    /\ UNCHANGED deployVars
    /\ UNCHANGED outsideRun

\* RunE up to the call of provider.Destroy: LoadState (loadOk tells whether
\* the state file can be read and decoded), ResolveDeployment("") when no
\* name was given, confirmDestroy unless --yes (readOk tells whether the
\* line can be read, answer is the line, trimmed and lower-cased).
DestroyCmdBegin(loadOk, readOk, answer) ==
    /\ cmd.name = "destroy"
    /\ cmd.pc = "start"
    /\ IF ~loadOk
       THEN /\ cmd' = [cmd EXCEPT !.pc = "done",
                                  !.err = "load local deployment state"]
            /\ readOk /\ answer = ""
            /\ UNCHANGED <<state, stateCall>>
       ELSE LET given == DestroyName(cmd.in)
                res == ResolveDeployment(stateFile, "")
                name == IF given # "" THEN given ELSE res.rec.Name
            IN /\ state' = stateFile
               /\ stateCall' = IF given # "" THEN stateCall
                               ELSE [op |-> "ResolveDeployment", name |-> "",
                                     rec |-> res.rec, err |-> res.err]
               /\ IF given = "" /\ res.err # "nil"
                  THEN /\ cmd' = [cmd EXCEPT
                                     !.pc = "done",
                                     !.err = IF res.err = "ErrNoDeployments"
                                             THEN "no deployments found; pass"
                                                  \o " --name to destroy a"
                                                  \o " specific app"
                                             ELSE res.err]
                       /\ readOk /\ answer = ""
                  ELSE IF cmd.in.yes
                  THEN /\ cmd' = [cmd EXCEPT !.pc = "destroy",
                                             !.in.target = name]
                       /\ readOk /\ answer = ""
                  ELSE IF ~readOk
                  THEN /\ cmd' = [cmd EXCEPT !.pc = "done",
                                             !.in.target = name,
                                             !.err = "read confirmation"]
                       /\ answer = ""
                  ELSE IF answer \in {"y", "yes"}
                  THEN cmd' = [cmd EXCEPT !.pc = "destroy",
                                          !.in.target = name]
                  ELSE cmd' = [cmd EXCEPT !.pc = "done", !.in.target = name]
    /\ UNCHANGED stateFile
    /\ UNCHANGED deployVars
    /\ UNCHANGED outsideRun

\* provider.Destroy(cmd.Context(), name) on the provider of
\* providers.NewFlyProvider(): it returns its error, kept in cmd.err as RunE
\* returns it; the app is gone from the platform when the API deleted it.
FlyDestroy(resp, listOk, retry) ==
    /\ cmd.name = "destroy"
    /\ cmd.pc = "destroy"
    /\ cmd' = [cmd EXCEPT
                  !.pc = "destroyed",
                  !.err = DestroyErr(cmd.in.target, resp, listOk, retry)]
    /\ platform' = IF cmd'.err = "nil"
                   THEN [platform EXCEPT !.apps = @ \ {cmd.in.target}]
                   ELSE platform
    /\ effects' = IF TrimSpace(cmd.in.target) # ""
                     /\ ResolveAccessToken.err = "nil"
                  THEN effects \cup {"api"} ELSE effects
    /\ UNCHANGED <<provider, cfg, env, dpc, deployment, deployErr, token,
                   logs, answers, steps, runs>>
    /\ UNCHANGED <<state, stateFile, stateCall>>
    /\ UNCHANGED outsideRun

\* A RunE that removes the record whatever provider.Destroy returned.
DestroyCmdEndAlwaysRemoves(saveOk) ==
    /\ cmd.name = "destroy"
    /\ cmd.pc = "destroyed"
    /\ saveOk
    /\ state' \in RemoveDeployment(state, cmd.in.target)
    /\ stateFile' = state'
    /\ cmd' = [cmd EXCEPT !.pc = "done"]
    /\ stateCall' = [op |-> "RemoveDeployment", name |-> cmd.in.target,
                     rec |-> NoRecord, err |-> "nil"]
    /\ UNCHANGED deployVars
    /\ UNCHANGED outsideRun

\* RunE once provider.Destroy has returned: its error is returned, or the
\* record is removed from the state and the state saved (saveOk tells
\* whether the state file can be written).
DestroyCmdEnd(saveOk) ==
    /\ cmd.name = "destroy"
    /\ cmd.pc = "destroyed"
    /\ IF cmd.err # "nil"
       THEN /\ cmd' = [cmd EXCEPT !.pc = "done"]
            /\ saveOk
            /\ UNCHANGED <<state, stateFile, stateCall>>
       ELSE /\ state' \in RemoveDeployment(state, cmd.in.target)
            /\ stateCall' = [op |-> "RemoveDeployment",
                             name |-> cmd.in.target, rec |-> NoRecord,
                             err |-> "nil"]
            /\ IF saveOk
               THEN /\ stateFile' = state'
                    /\ cmd' = [cmd EXCEPT !.pc = "done"]
               ELSE /\ UNCHANGED stateFile
                    /\ cmd' = [cmd EXCEPT
                                  !.pc = "done",
                                  !.err = "destroyed app but failed to update"
                                          \o " local state"]
    /\ UNCHANGED deployVars
    /\ UNCHANGED outsideRun

\* The deploy commands, the destroy commands, and provider.Deploy called on
\* its own with every config.
InitCmd == InitDeployCmd \/ InitDestroyCmd \/ InitDeploy

NextCmd ==
    \/ DeployCmdBegin
    \/ \E loadOk \in BOOLEAN : \E saveOk \in BOOLEAN :
          DeployCmdEnd(loadOk, saveOk)
    \/ DeployBegin
    \/ DeployAuth
    \/ \E resp \in AppResponses(cfg.Name) : \E written \in BOOLEAN :
          EnsureAppExists(resp, written)
    \/ \E ipType \in {"v4", "v6"} :
          \E resp \in IPResponses(cfg.Name, ipType) : \E written \in BOOLEAN :
              AllocateIPAddress(ipType, resp, written)
    \/ \E resp \in ListResponses(cfg.Name) : ListVolumes(resp)
    \/ \E resp \in CreateResponses : CreateVolume(resp)
    \/ \E ok \in BOOLEAN : \E output \in FlyOutputs : \E written \in BOOLEAN :
          FlyctlDeploy(ok, output, written)
    \/ \E ok \in BOOLEAN : \E written \in BOOLEAN : RailwayEnsure(ok, written)
    \/ \E envOk \in BOOLEAN : \E volOk \in BOOLEAN : \E domain \in Domains :
          \E ok \in BOOLEAN : \E written \in BOOLEAN : \E ids \in BOOLEAN :
              RailwayUp(envOk, volOk, domain, ok, written, ids)
    \/ \E ok \in BOOLEAN : DeployHealth(ok)
    \/ \E loadOk \in BOOLEAN : \E readOk \in BOOLEAN :
          \E answer \in Responses : DestroyCmdBegin(loadOk, readOk, answer)
    \/ \E resp \in DestroyResponses : \E listOk \in BOOLEAN :
          \E retry \in DestroyResponses : FlyDestroy(resp, listOk, retry)
    \/ \E saveOk \in BOOLEAN : DestroyCmdEnd(saveOk)
SpecCmd == InitCmd /\ [][NextCmd]_vars

(***************************************************************************)
(* Properties of monitor.SlotHistory.                                      *)
(***************************************************************************)
\* The last n elements of a sequence (all of it when it is shorter).
LastN(seq, n) ==
    IF Len(seq) <= n THEN seq ELSE SubSeq(seq, Len(seq) - n + 1, Len(seq))

Min(a, b) == IF a <= b THEN a ELSE b

SlotsOf(es) == [i \in 1..Len(es) |-> es[i].Slot]

\* No Record call stands between its append and its trim.
NoRecordMidway == \A p \in Procs : pc[p] # "rec_trim"

\* First index of the trailing run of the newest slot value of es (Len(es) >= 1).
RunStart(es) ==
    CHOOSE i \in 1..Len(es) :
        /\ \A j \in i..Len(es) : es[j].Slot = es[Len(es)].Slot
        /\ i = 1 \/ es[i - 1].Slot # es[Len(es)].Slot

RunLength(es) == Len(es) - RunStart(es) + 1
RunSpan(es) == es[Len(es)].Timestamp - es[RunStart(es)].Timestamp

\* C1: after any sequence of n Record calls the buffer holds exactly the last
\* min(n, 20) recorded slots, in the order they were recorded.
C1_LastTwentyInOrder ==
    NoRecordMidway =>
        /\ Len(entries) = Min(Len(recorded), MaxEntries)
        /\ SlotsOf(entries) = SlotsOf(LastN(recorded, MaxEntries))

\* More than 20 slots were recorded and the evicted oldest one differs from
\* the oldest one kept.
C1_Witness ==
    /\ NoRecordMidway
    /\ pc[1] = "idle"
    /\ Len(recorded) > MaxEntries
    /\ recorded[1].Slot # entries[1].Slot

\* C2: the timestamps in the buffer never decrease from oldest to newest, and
\* the buffer holds at most 20 entries in every state in which no Record call
\* stands between its append and its trim (so in every state in which the
\* mutex is free), with concurrent callers.
C2_BoundedAndOrdered ==
    /\ \A i \in 1..(Len(entries) - 1) :
          entries[i].Timestamp <= entries[i + 1].Timestamp
    /\ NoRecordMidway => Len(entries) <= MaxEntries
    /\ mu = NoProc => NoRecordMidway

\* Two goroutines are in Record at once, one waiting for the mutex the other
\* holds; the buffer is full, has been trimmed, and spans a clock tick.
C2_Witness ==
    /\ Len(recorded) > MaxEntries
    /\ Len(entries) = MaxEntries
    /\ entries[1].Timestamp < entries[Len(entries)].Timestamp
    /\ \E p, q \in Procs : p # q /\ pc[p] = "rec_unlock" /\ pc[q] = "rec_lock"

\* The Record calls whose entry is appended and which have not returned.
RecordsInFlight ==
    Cardinality({p \in Procs : pc[p] \in {"rec_trim", "rec_unlock"}})

\* The buffer produced by the first k Record calls.
BufferAfter(k) == LastN(SubSeq(recorded, 1, k), MaxEntries)

\* The prefixes of the Record calls a call returning now may have observed:
\* every finished Record, and any of those in flight.
ObservablePrefixes == (Len(recorded) - RecordsInFlight)..Len(recorded)

\* C3: every IsStuck and HasProgressed result of concurrent callers is the
\* result computed on the buffer produced by a complete prefix of the Record
\* calls, never on a partially appended or trimmed buffer.
C3_Linearizable ==
    [][\A p \in Procs :
          /\ (pc[p] = "stk_body" /\ pc'[p] = "idle") =>
                \E k \in ObservablePrefixes :
                    ret'[p] = StuckRet(IsStuckOf(BufferAfter(k), stuckThreshold))
          /\ (pc[p] = "hp_body" /\ pc'[p] = "idle") =>
                \E k \in ObservablePrefixes :
                    ret'[p] = ProgRet(HasProgressedOf(BufferAfter(k)))]_vars

\* IsStuck has returned stuck over a full buffer after an eviction while the
\* other goroutine is inside Record.
C3_Witness ==
    \E p, q \in Procs :
        /\ p # q
        /\ ret[p].op = "IsStuck" /\ ret[p].stuck
        /\ ret[p].info[1].ObservationCount = MaxEntries
        /\ Len(recorded) > MaxEntries
        /\ pc[q] \in {"rec_lock", "rec_now", "rec_append", "rec_trim", "rec_unlock"}

\* C4: IsStuck returns (false, nil) whenever the buffer holds fewer than 2
\* observations, for every slot and threshold.
C4_FewerThanTwoNotStuck ==
    (ret[1].op = "IsStuck" /\ Len(recorded) < 2) =>
        (~ret[1].stuck /\ ret[1].info = <<>>)

\* IsStuck has returned on a buffer of one observation with a zero threshold.
C4_Witness ==
    /\ ret[1].op = "IsStuck"
    /\ Len(recorded) = 1
    /\ stuckThreshold = 0

\* C5: IsStuck returns false whenever the two most recent observations have
\* different slots.
C5_ProgressNotStuck ==
    (/\ ret[1].op = "IsStuck"
     /\ Len(recorded) >= 2
     /\ recorded[Len(recorded)].Slot # recorded[Len(recorded) - 1].Slot) =>
        (~ret[1].stuck /\ ret[1].info = <<>>)

\* IsStuck has returned on a buffer ending x, y, x with a zero threshold.
C5_Witness ==
    /\ ret[1].op = "IsStuck"
    /\ stuckThreshold = 0
    /\ Len(entries) >= 3
    /\ entries[Len(entries)].Slot = entries[Len(entries) - 2].Slot
    /\ entries[Len(entries)].Slot # entries[Len(entries) - 1].Slot

\* C6: when the trailing run of the newest slot has k >= 2 entries and spans
\* at least the threshold, IsStuck returns true with the run's slot, k, the
\* timestamps of the run's first and last entry and their difference.
C6_StuckInfo ==
    (/\ ret[1].op = "IsStuck"
     /\ Len(entries) >= 2
     /\ RunLength(entries) >= 2
     /\ RunSpan(entries) >= stuckThreshold) =>
        /\ ret[1].stuck
        /\ ret[1].info =
              << [StuckSlot |-> entries[Len(entries)].Slot,
                  FirstObservedAt |-> entries[RunStart(entries)].Timestamp,
                  LastObservedAt |-> entries[Len(entries)].Timestamp,
                  Duration |-> RunSpan(entries),
                  ObservationCount |-> RunLength(entries)] >>

\* IsStuck has returned on a run of three or more entries behind a different
\* slot, whose span equals a positive threshold.
C6_Witness ==
    /\ ret[1].op = "IsStuck"
    /\ Len(entries) >= 4
    /\ RunLength(entries) >= 3
    /\ RunStart(entries) > 1
    /\ stuckThreshold > 0
    /\ RunSpan(entries) = stuckThreshold

\* C7: when the trailing run spans less than the threshold, IsStuck returns
\* false, however long the run is.
C7_ShortSpanNotStuck ==
    (/\ ret[1].op = "IsStuck"
     /\ Len(entries) >= 1
     /\ RunSpan(entries) < stuckThreshold) =>
        (~ret[1].stuck /\ ret[1].info = <<>>)

\* IsStuck has returned on a full buffer of one slot, recorded after a clock
\* tick, whose span is below the threshold.
C7_Witness ==
    /\ ret[1].op = "IsStuck"
    /\ Len(entries) = MaxEntries
    /\ RunLength(entries) = MaxEntries
    /\ entries[1].Timestamp > 0
    /\ RunSpan(entries) < stuckThreshold

\* C8: HasProgressed returns true exactly when at least 2 observations were
\* recorded and the two most recent slots differ.
C8_HasProgressedIff ==
    ret[1].op = "HasProgressed" =>
        (ret[1].prog <=>
            (/\ Len(recorded) >= 2
             /\ recorded[Len(recorded)].Slot # recorded[Len(recorded) - 1].Slot))

\* HasProgressed has returned false on a buffer whose newest slot differs
\* from its oldest one.
C8_Witness ==
    /\ ret[1].op = "HasProgressed"
    /\ ~ret[1].prog
    /\ Len(entries) >= 3
    /\ entries[Len(entries)].Slot # entries[1].Slot

(***************************************************************************)
(* Properties of the watch loop.                                           *)
(***************************************************************************)
\* Less than the restart cooldown has elapsed since the last successful
\* restart.
InCooldownWindow ==
    /\ restartTimes # <<>>
    /\ now - restartTimes[Len(restartTimes)] < restartCooldown

\* C9: while less than the cooldown has elapsed since the last successful
\* restart, the loop is neither at the confirmation prompt nor in a Restart
\* call; a tick stopped by the cooldown has issued neither; and successive
\* successful restarts are at least one cooldown apart.
C9_CooldownFirst ==
    /\ InCooldownWindow => wpc \notin {"prompt", "restart"}
    /\ tickLog.cooldown =>
          (tickLog.stuck /\ ~tickLog.prompted /\ tickLog.restart = "none")
    /\ \A i \in 1..(Len(restartTimes) - 1) :
          restartTimes[i + 1] - restartTimes[i] >= restartCooldown

\* In confirmation mode a tick after a successful restart has detected the
\* stuck slot again and was stopped by the cooldown.
C9_Witness ==
    /\ ~autoRestart
    /\ restartCooldown > 0
    /\ restartTimes # <<>>
    /\ tickLog.stuck /\ tickLog.cooldown
    /\ wpc = "select"

\* C10: a tick whose getSlot call fails records nothing, evaluates no stuck
\* condition, issues no prompt and no restart, leaves restartCount and
\* lastRestartTime unchanged, and returns Run to its select.
C10_FailedRpcNoOp ==
    [][(wpc = "rpc" /\ tickLog'.rpc = "fail") =>
          /\ UNCHANGED <<entries, recorded, restartCount, lastRestartTime,
                         restartTimes>>
          /\ tickLog' = [NoTick EXCEPT !.rpc = "fail"]
          /\ wpc' = "select"]_vars

\* After a restart, with the same slot recorded twice, a tick's getSlot call
\* has failed and Run is back in its select.
C10_Witness ==
    /\ tickLog.rpc = "fail"
    /\ wpc = "select"
    /\ restartCount >= 1
    /\ Len(entries) >= 2
    /\ IsStuckOf(entries, stuckThreshold).stuck

\* C11: restartCount grows by exactly one and lastRestartTime is set to the
\* current time in the step in which provider.Restart returns success, and
\* in no other step: not when Restart fails, not when the user declines the
\* confirmation, not when the cooldown suppresses the restart.
C11_CountedOnSuccessOnly ==
    [][IF wpc = "restart" /\ tickLog'.restart = "ok"
       THEN /\ restartCount' = restartCount + 1
            /\ lastRestartTime' = now
       ELSE UNCHANGED <<restartCount, lastRestartTime>>]_vars

\* After one successful restart a later Restart call has failed, and the
\* count is still one and the restart time still that of the success.
C11_Witness ==
    /\ tickLog.restart = "failed"
    /\ restartCount = 1
    /\ lastRestartTime # ZeroTime
    /\ lastRestartTime < now

\* C12: a provider.Restart call that fails while the watch itself is not
\* cancelled (the expiry of the call's own 60-second sub-timeout included)
\* does not make Run return: the loop goes on to its next select.
C12_FailedRestartKeepsPolling ==
    [][(wpc = "restart" /\ tickLog'.restart = "failed" /\ ~cancelled)
          => wpc' = "select"]_vars

\* C13: with max-restarts N > 0 Run has returned as soon as the tick in
\* which the successful restarts reach N is over, so restartCount never
\* exceeds N and the loop is never again at the prompt or in a Restart call;
\* with N = 0 Run returns only on cancellation or on a context error of
\* checkAndRestart, never on account of the restart count.
C13_MaxRestartsStops ==
    /\ maxRestarts > 0 => restartCount <= maxRestarts
    /\ (maxRestarts > 0 /\ restartCount >= maxRestarts) => wpc = "stopped"
    /\ (maxRestarts = 0 /\ wpc = "stopped") =>
          (cancelled \/ tickLog.restart = "failed")
    /\ Len(restartTimes) = restartCount

\* With N > 0 the N-th successful restart has ended Run, with no
\* cancellation.
C13_Witness ==
    /\ maxRestarts > 0
    /\ restartCount = maxRestarts
    /\ tickLog.restart = "ok"
    /\ wpc = "stopped"
    /\ ~cancelled

\* C14: once ctx is cancelled Run returns within one check interval,
\* whichever state the loop was in: while Run has not returned, no more than
\* checkInterval has passed since the cancellation.
C14_ReturnsWithinOneInterval ==
    (cancelled /\ wpc # "stopped") => now - cancelTime <= checkInterval

\* Every slot recorded so far is the same one.
SameSlotThroughout ==
    \A i \in 1..Len(recorded) : recorded[i].Slot = recorded[1].Slot

\* C15: when every poll has succeeded with the same slot, a tick that
\* observes that slot more than the stuck threshold after its first
\* observation reports stuck, however many polls that took.
C15_LongStallReported ==
    (/\ tickLog.rpc = "ok"
     /\ recorded # <<>>
     /\ SameSlotThroughout
     /\ recorded[Len(recorded)].Timestamp - recorded[1].Timestamp
            > stuckThreshold)
        => tickLog.stuck

(***************************************************************************)
(* Properties of waitForRPCHealthy.                                        *)
(***************************************************************************)
\* No probe issued so far has succeeded.
AllProbesFailed == \A i \in 1..Len(probes) : probes[i].result # "ok"

\* C16: the first probe is issued at the moment of the call; a probe that
\* succeeds is the last one issued and makes the call return nil at once;
\* so a call that returns nil after k failed probes has issued exactly k + 1
\* probes.
C16_FirstSuccessReturns ==
    /\ (hpc \in {"probe", "select"} \/ healthRet.kind = "nil") =>
          (probes # <<>> /\ probes[1].start = 0)
    /\ \A i \in 1..Len(probes) :
          probes[i].result = "ok" =>
              (i = Len(probes) /\ hpc = "returned" /\ healthRet.kind = "nil")
    /\ healthRet.kind = "nil" =>
          /\ probes[Len(probes)].result = "ok"
          /\ \A i \in 1..(Len(probes) - 1) :
                probes[i].result \in ProbeErrors

\* With a timeout, two probes have failed and the third one has succeeded:
\* nil is returned after exactly 3 probes.
C16_Witness ==
    /\ timeout > 0
    /\ healthRet.kind = "nil"
    /\ Len(probes) = 3
    /\ probes[1].result # probes[2].result

\* C17 as stated: when every probe fails, a call with timeout T > 0 and
\* interval I > 0 returns an error, no earlier than T and no later than
\* T + I after the call.
C17_AllFailReturnsAtTimeout ==
    (/\ hpc = "returned"
     /\ ~IsBlank(rpcURL)
     /\ timeout > 0
     /\ AllProbesFailed)
        => /\ healthRet.kind = "did not become healthy"
           /\ healthRetTime >= timeout
           /\ healthRetTime <= timeout + interval

\* C17, amended: when every probe fails, a call with timeout T > 0 and
\* interval I > 0 has returned by T + I, with an error and never with nil;
\* it returns no earlier than T unless the caller's ctx is cancelled (it
\* then returns at the cancellation).
C17_AllFailReturnsAtTimeoutOrCancel ==
    /\ (hpc \in {"probe", "select"} /\ timeout > 0) =>
          now <= timeout + interval
    /\ (/\ hpc = "returned"
        /\ ~IsBlank(rpcURL)
        /\ timeout > 0
        /\ AllProbesFailed)
           => /\ healthRet.kind = "did not become healthy"
              /\ healthRetTime <= timeout + interval
              /\ ~ctxDone => healthRetTime >= timeout

\* With no cancellation, several probes have failed and the call has
\* returned its error at the deadline.
C17_Witness ==
    /\ hpc = "returned"
    /\ ~ctxDone
    /\ timeout > 0
    /\ Len(probes) >= 2
    /\ AllProbesFailed
    /\ healthRet.kind = "did not become healthy"
    /\ healthRetTime = timeout

\* C18: for a non-empty URL the only error returned is the one of the select's
\* Done branch, returned when healthCtx is done (deadline or cancellation)
\* and never while time remains; it wraps the failure reason of the most
\* recent probe.
C18_ErrorWrapsLastProbe ==
    (/\ hpc = "returned"
     /\ ~IsBlank(rpcURL)
     /\ healthRet.kind # "nil")
        => /\ healthRet.kind = "did not become healthy"
           /\ HealthCtxDone(healthRetTime)
           /\ probes # <<>>
           /\ probes[Len(probes)].result \notin {"ok", "pending"}
           /\ healthRet.wraps = probes[Len(probes)].result

\* Two probes have failed for different reasons while time remained, and the
\* error returned wraps the second reason.
C18_Witness ==
    /\ hpc = "returned"
    /\ Len(probes) = 2
    /\ probes[1].result \in ProbeErrors
    /\ probes[2].result \in ProbeErrors
    /\ probes[1].result # probes[2].result
    /\ healthRet.wraps = probes[2].result

(***************************************************************************)
(* Properties of Deploy.                                                   *)
(***************************************************************************)
\* The domain under which a platform serves a deployment by its name.
PlatformDomain(prov) ==
    IF prov = "fly" THEN "fly.dev" ELSE "up.railway.app"

\* C19: a Deploy with DryRun = true that returns a Deployment has made no
\* remote API call, run no provider CLI and probed no endpoint, and the
\* Deployment's RPCURL is https://<name>.<platform-domain> and its
\* WebSocketURL wss://<name>.<platform-domain>, for Fly and for Railway.
C19_DryRunPlaceholder ==
    (dpc = "returned" /\ cfg.DryRun /\ deployErr = "nil") =>
        /\ effects = {}
        /\ deployment.RPCURL =
              "https://" \o cfg.Name \o "." \o PlatformDomain(provider)
        /\ deployment.WebSocketURL =
              "wss://" \o cfg.Name \o "." \o PlatformDomain(provider)

\* The answer the app creation got is a success or a name conflict.
AppEnsured(resp) ==
    /\ resp.err \in {"nil", "not asked"}
    /\ \/ resp = NotAsked
       \/ resp.status \in 200..299
       \/ resp.status \in {409, 422} /\ NameTaken(resp.body)

\* The answer an IP allocation got is a success or an "already has" /
\* "already allocated" GraphQL error.
IPEnsured(resp) ==
    /\ resp.err \in {"nil", "not asked"}
    /\ \/ resp = NotAsked
       \/ /\ resp.status = 200
          /\ \A i \in 1..Len(resp.errors) : AlreadyAllocated(resp.errors[i])

\* C20: a Fly Deploy (not a dry run, with a valid config, a token and
\* flyctl) whose app creation was answered with a success or a name
\* conflict, whose IP allocations were answered with a success or an
\* "already" error, and whose push and health check did not fail, returns
\* its Deployment and no error; so does a second Deploy with the same
\* config.
C20_RerunSucceeds ==
    (/\ dpc = "returned"
     /\ provider = "fly"
     /\ ~cfg.DryRun
     /\ ~IsBlank(cfg.Name) /\ ~IsBlank(cfg.Region)
     /\ env.files /\ env.cli /\ ResolveAccessToken.err = "nil"
     /\ ~env.credsErr
     /\ answers.log # "failed"
     /\ AppEnsured(answers.app)
     /\ IPEnsured(answers.v4)
     /\ IPEnsured(answers.v6)
     /\ answers.push # "failed"
     /\ answers.health # "failed")
        => /\ deployErr = "nil"
           /\ deployment.Name = cfg.Name
           /\ deployment.RPCURL # ""
           /\ answers.push = "ok"

\* The second Deploy has returned its Deployment after the platform answered
\* "already exists" to the app creation and "already" errors to both IP
\* allocations.
C20_Witness ==
    /\ dpc = "returned"
    /\ runs = 2
    /\ provider = "fly"
    /\ deployErr = "nil"
    /\ answers.app.status \in {409, 422}
    /\ answers.v4.errors # <<>>
    /\ answers.v6.errors # <<>>
    /\ answers.health = "ok"

\* s is an initial part of t.
IsPrefix(s, t) == Len(s) <= Len(t) /\ s = SubSeq(t, 1, Len(s))

\* The orders in which a Fly Deploy may run all of its remote steps: the
\* volume step is none, a listing, or a listing and a creation.
FlyStepOrders ==
    {<<"app", "v4", "v6">> \o vol \o <<"push", "health">> :
        vol \in {<<>>, <<"list">>, <<"list", "create">>}}

\* The answer an IP allocation got makes allocateIPAddress fail: the request
\* failed, or the first GraphQL error is no "already has" / "already
\* allocated" conflict.
IPFailed(resp) ==
    /\ resp # NotAsked
    /\ \/ resp.err # "nil"
       \/ resp.status # 200
       \/ resp.errors # <<>> /\ ~AlreadyAllocated(resp.errors[1])

\* C21: the remote steps of a Fly Deploy run in the order ensure app,
\* shared_v4, v6, volume, push, health poll; when ensure-app, an IP
\* allocation or the push fails, the failed step is the last one executed
\* and Deploy has returned an error and no Deployment.
C21_OrderedAndAborting ==
    provider = "fly" =>
        /\ \E order \in FlyStepOrders : IsPrefix(steps, order)
        /\ ~AppEnsured(answers.app) => steps = <<"app">>
        /\ IPFailed(answers.v4) => steps = <<"app", "v4">>
        /\ IPFailed(answers.v6) => steps = <<"app", "v4", "v6">>
        /\ answers.push = "failed" => steps[Len(steps)] = "push"
        /\ (\/ ~AppEnsured(answers.app)
            \/ IPFailed(answers.v4)
            \/ IPFailed(answers.v6)
            \/ answers.push = "failed")
              => /\ dpc = "returned"
                 /\ deployErr # "nil"
                 /\ deployment = NoDeployment

\* A Fly Deploy has listed and created the volume, and returned after its
\* push failed.
C21_Witness ==
    /\ provider = "fly"
    /\ dpc = "returned"
    /\ answers.push = "failed"
    /\ steps = <<"app", "v4", "v6", "list", "create", "push">>

\* The error with which ensuring the volume has failed in the current call
\* ("nil" when it has not failed, or has not been tried).
VolumeFailure ==
    IF provider = "railway"
    THEN IF answers.volume = "failed" THEN "could not create volume" ELSE "nil"
    ELSE IF answers.create # NotAsked THEN CreateVolumeErr(answers.create)
    ELSE IF answers.list.err # "not asked" THEN ListVolumesErr(answers.list)
    ELSE "nil"

\* The line of the log that warns of the volume failure.
VolumeWarning ==
    IF provider = "railway" THEN "warning: could not create volume"
    ELSE "volume creation warning: " \o VolumeFailure

\* The lines of a log, as a set.
Lines(l) == {l[i] : i \in DOMAIN l}

\* C22: when ensuring the volume has failed (the listing or the creation),
\* the log holds a warning of it, Deploy has not returned without running
\* the push, and the warning is in deploy.log once that is written.
C22_VolumeFailureIsWarning ==
    VolumeFailure # "nil" =>
        /\ VolumeWarning \in Lines(logs)
        /\ dpc = "returned" => steps[Len(steps)] \in {"push", "up", "health"}
        /\ dpc \in {"push", "health", "returned"}
        /\ answers.log = "written" => VolumeWarning \in Lines(env.deployLog)

\* A Fly Deploy has returned its Deployment, and written deploy.log, after
\* the creation of the volume failed.
C22_Witness ==
    /\ provider = "fly"
    /\ dpc = "returned"
    /\ deployErr = "nil"
    /\ deployment.Name = cfg.Name
    /\ answers.create # NotAsked
    /\ CreateVolumeErr(answers.create) # "nil"
    /\ answers.push = "ok"
    /\ VolumeWarning \in Lines(env.deployLog)

\* The listing answered to the current call succeeded (a 404 is an empty
\* listing).
ListingSucceeded ==
    /\ answers.list.err = "nil"
    /\ \/ answers.list.status = 404
       \/ answers.list.status \in 200..299 /\ answers.list.valid

\* The listing answered to the current call holds <name>_ledger.
LedgerListed ==
    /\ ListingSucceeded
    /\ answers.list.status # 404
    /\ VolumeName(cfg.Name) \in answers.list.volumes

\* The listing answered to the current call holds <name>_ledger if and
\* only if the platform has such a volume.
ListingReflectsPlatform ==
    LedgerListed <=> VolumeName(cfg.Name) \in VolumesOf(cfg.Name)

\* The number of <name>_ledger volumes in the volumes vs.
LedgerCount(vs) ==
    Cardinality({i \in DOMAIN vs :
                    vs[i] = [app |-> cfg.Name, name |-> VolumeName(cfg.Name)]})

\* What holds of the volume steps of a call in every state.
VolumeStepsGuarded ==
    /\ ("create" \in Lines(steps) \/ dpc = "create")
          => ListingSucceeded /\ ~LedgerListed
    /\ cfg.SkipVolume
          => "list" \notin Lines(steps) /\ "create" \notin Lines(steps)
    /\ "create" \in Lines(steps) => "list" \in Lines(steps)

\* C23: a create-volume request is issued only after a successful listing
\* without <name>_ledger (not when it is listed, not when the listing
\* failed); with SkipVolume neither request is issued; and a creation that
\* follows a listing which reflects the platform leaves exactly one
\* <name>_ledger volume, in the first Deploy and in every later one.
C23_ListThenCreate ==
    [][/\ VolumeStepsGuarded'
       /\ (Len(platform'.volumes) > Len(platform.volumes)
              /\ ListingReflectsPlatform)
             => LedgerCount(platform'.volumes) = 1]_vars

\* The second Deploy has returned after it found <name>_ledger, which the
\* first created, in its listing and issued no create request.
C23_Witness ==
    /\ dpc = "returned"
    /\ runs = 2
    /\ LedgerListed
    /\ "list" \in Lines(steps)
    /\ "create" \notin Lines(steps)
    /\ LedgerCount(platform.volumes) = 1

\* The error e is the stage error, or wraps it.
WrapsStage(e, stage) ==
    e \in {stage, stage \o " see deploy log",
           stage \o " (also failed to write deploy log)"}

\* C24 (as stated): whenever the deploy step of a Deploy has failed, the
\* captured log has been written to deploy.log (or the write has failed)
\* by the time Deploy has returned, and the error returned is the stage
\* error, wrapped.
C24_LogWrittenBeforeError ==
    (dpc = "returned" /\ answers.stage \notin {"none", "nil"}) =>
        /\ answers.log \in {"written", "failed"}
        /\ answers.log = "written" => env.deployLog = logs
        /\ WrapsStage(deployErr, answers.stage)

\* C24 (amended): whenever the deploy step of a Deploy has failed after it
\* captured any log, the log has been written to deploy.log (or the write
\* has failed) by the time Deploy has returned; the error returned is the
\* stage error, wrapped, whether or not a log was captured or written.
C24_CapturedLogWrittenBeforeError ==
    (dpc = "returned" /\ answers.stage \notin {"none", "nil"}) =>
        /\ logs # <<>> => answers.log \in {"written", "failed"}
        /\ answers.log = "written" => logs # <<>> /\ env.deployLog = logs
        /\ WrapsStage(deployErr, answers.stage)
        /\ deployment = NoDeployment

\* A Deploy has returned the wrapped error of a failed push although
\* deploy.log could not be written.
C24_Witness ==
    /\ dpc = "returned"
    /\ answers.push = "failed"
    /\ answers.log = "failed"
    /\ deployErr = answers.stage \o " (also failed to write deploy log)"

\* The combined output of the push of the current call.
PushOutput == logs[Len(logs)]

\* The host of a Fly deployment whose push printed output.
HostAfterPush(output) ==
    IF ExtractFlyHost(output) = "" THEN cfg.Name \o ".fly.dev"
    ELSE ExtractFlyHost(output)

\* C25: once the push of a Fly Deploy has succeeded, Deploy fails only if
\* deploy.log cannot be written or the health check fails, whether or not
\* the output names a host; the Deployment it goes on with has RPCURL
\* https://<host> and WebSocketURL wss://<host>, the host being the one in
\* the output, or <name>.fly.dev when the output names none.
C25_HostNeverBlocks ==
    (provider = "fly" /\ answers.push = "ok") =>
        IF deployErr = "nil"
        THEN /\ answers.log = "written"
             /\ deployment.RPCURL = "https://" \o HostAfterPush(PushOutput)
             /\ deployment.WebSocketURL = "wss://" \o HostAfterPush(PushOutput)
        ELSE \/ answers.log = "failed" /\ deployErr = "write deploy log"
             \/ answers.health = "failed"

\* A Fly Deploy has returned its Deployment, at <name>.fly.dev, after a push
\* whose output names no host.
C25_Witness ==
    /\ provider = "fly"
    /\ dpc = "returned"
    /\ answers.push = "ok"
    /\ deployErr = "nil"
    /\ PushOutput = "deployed"
    /\ ExtractFlyHost(PushOutput) = ""
    /\ deployment.RPCURL = "https://" \o cfg.Name \o ".fly.dev"
    /\ deployment.WebSocketURL = "wss://" \o cfg.Name \o ".fly.dev"

\* The error Deploy returns when the health poller fails.
UnhealthyError == "deployment completed but RPC health check failed"

\* The remote steps Deploy can take.
DeploySteps ==
    {"app", "v4", "v6", "list", "create", "push", "project", "environment",
     "volume", "domain", "up", "health"}

\* C26: when the health poller has failed after a successful push, Deploy
\* has returned the "deployment completed but RPC health check failed"
\* error, which it returns in no other case; the poll was its last remote
\* step, no step destroys or deletes anything, and the app is still on the
\* platform; with SkipHealthCheck the endpoint is never probed.
C26_UnhealthyIsDistinct ==
    /\ answers.health = "failed" =>
          /\ dpc = "returned"
          /\ answers.push = "ok"
          /\ deployErr = UnhealthyError
          /\ steps[Len(steps)] = "health"
          /\ provider = "fly" => cfg.Name \in platform.apps
    /\ (dpc = "returned" /\ deployErr = UnhealthyError) =>
          /\ answers.health = "failed"
          /\ answers.stage = "nil"
    /\ Lines(steps) \subseteq DeploySteps
    /\ cfg.SkipHealthCheck =>
          "health" \notin Lines(steps) /\ "probe" \notin effects

\* A Fly Deploy has returned the error of the failed health check; the app
\* and its volume are on the platform.
C26_Witness ==
    /\ provider = "fly"
    /\ dpc = "returned"
    /\ answers.health = "failed"
    /\ deployErr = UnhealthyError
    /\ cfg.Name \in platform.apps
    /\ LedgerCount(platform.volumes) = 1

(***************************************************************************)
(* Properties of resolveAccessToken.                                      *)
(***************************************************************************)
\* The sources of the Fly token, in the order of their priority.
FlyTokenPriority ==
    <<"AccessToken", "SOL_CLOUD_FLY_ACCESS_TOKEN", "FLY_ACCESS_TOKEN",
      "FLY_API_TOKEN", "creds">>

\* What the source n holds; an unreadable credentials file holds nothing.
SourceValue(n) ==
    IF n = "AccessToken" THEN env.AccessToken
    ELSE IF n = "creds" THEN IF env.credsErr THEN "" ELSE env.creds
    ELSE env.environ[n]

\* The sources that hold a value that is not blank, by their priority.
SetSources ==
    {i \in DOMAIN FlyTokenPriority : ~IsBlank(SourceValue(FlyTokenPriority[i]))}

\* The errors that name `sol-cloud auth fly`.
FlyAuthErrors ==
    {"fly auth required: run sol-cloud auth fly: " \o r :
        r \in {"no access token configured", "load credentials"}}

\* A Fly Deploy that is no dry run has resolved its token, or failed to.
FlyTokenResolved ==
    /\ provider = "fly"
    /\ dpc \notin {"idle", "call", "auth"}
    /\ ~cfg.DryRun
    /\ ~IsBlank(cfg.Name) /\ ~IsBlank(cfg.Region) /\ env.files

\* C27: the token a Fly Deploy uses is the value, without its surrounding
\* blanks, of the first source that is not blank among p.AccessToken,
\* SOL_CLOUD_FLY_ACCESS_TOKEN, FLY_ACCESS_TOKEN, FLY_API_TOKEN and the
\* credentials file (every token of the model is the name of its source);
\* when no source is set, Deploy has returned an error that names
\* `sol-cloud auth fly` and has taken no remote step.
C27_TokenPriority ==
    FlyTokenResolved =>
        IF SetSources = {}
        THEN /\ dpc = "returned"
             /\ deployErr \in FlyAuthErrors
             /\ token = ""
             /\ steps = <<>>
             /\ effects = {}
        ELSE /\ token = FlyTokenPriority[
                            CHOOSE i \in SetSources :
                                \A j \in SetSources : i <= j]
             /\ deployErr \notin FlyAuthErrors

\* A Fly Deploy has returned its Deployment with the token of FLY_API_TOKEN:
\* the sources before it are blank and the credentials file holds a token.
C27_Witness ==
    /\ provider = "fly"
    /\ dpc = "returned"
    /\ deployErr = "nil"
    /\ deployment.Name = cfg.Name
    /\ token = "FLY_API_TOKEN"
    /\ env.AccessToken = " "
    /\ env.creds = Padded("creds")
    /\ ~env.credsErr

(***************************************************************************)
(* Properties of VerifyAccessToken.                                       *)
(***************************************************************************)
\* The probes of one kind sent so far.
ProbesSent(kind) == {i \in DOMAIN requests : requests[i].probe = kind}

\* The Machines API has answered the primary probe with status.
PrimaryAnswered(status) ==
    /\ requests # <<>>
    /\ requests[1].probe = "machines"
    /\ requests[1].resp.err = "nil"
    /\ requests[1].resp.status = status

\* C28: when the Machines API answers the primary probe with 401,
\* VerifyAccessToken has returned a rejection and the primary probe is the
\* only request sent.
C28_UnauthorizedIsFinal ==
    PrimaryAnswered(401) =>
        /\ verify.pc = "returned"
        /\ verify.ret = "token rejected by Fly API (401)"
        /\ Len(requests) = 1

\* The primary probe has been answered 401 and the call has returned.
C28_Witness ==
    /\ PrimaryAnswered(401)
    /\ verify.pc = "returned"
    /\ verify.ret # "nil"
    /\ ProbesSent("graphql") = {}

\* The answer a GraphQL probe got accepts the token: a 2xx status, a body
\* that decodes, no GraphQL error, and data.
FallbackSucceeded(resp) ==
    /\ resp.err = "nil"
    /\ resp.status \in 200..299
    /\ resp.body = "data"
    /\ resp.errors = <<>>

\* C29: when the Machines API answers the primary probe with 403, the call
\* waits for the fallback or has returned after exactly one GraphQL probe,
\* sent after the primary one with the same token, and it has accepted the
\* token if and only if that probe succeeded; no call sends more than one
\* primary or more than one fallback probe.
C29_ForbiddenFallsBackOnce ==
    /\ Cardinality(ProbesSent("machines")) <= 1
    /\ Cardinality(ProbesSent("graphql")) <= 1
    /\ PrimaryAnswered(403) =>
          IF verify.pc = "returned"
          THEN /\ Len(requests) = 2
               /\ requests[2].probe = "graphql"
               /\ requests[2].token = requests[1].token
               /\ verify.ret = "nil" <=> FallbackSucceeded(requests[2].resp)
          ELSE verify.pc = "graphql" /\ Len(requests) = 1

\* The primary probe has been answered 403, the fallback probe has failed
\* and the call has returned its error.
C29_Witness ==
    /\ PrimaryAnswered(403)
    /\ verify.pc = "returned"
    /\ Len(requests) = 2
    /\ ~FallbackSucceeded(requests[2].resp)
    /\ verify.ret # "nil"

\* The bodies of the 404 answers that a router gives for an unknown path.
RouteNotFoundBodies ==
    {"404 page not found", "Error: 404 Page Not Found", "Not Found",
     " not found "}

\* C30: a primary probe answered 2xx, or 404 with a body that is not a
\* routing 404, accepts the token with no other request; a primary probe
\* answered with a routing 404 is followed by the fallback probe, and the
\* token is accepted if and only if that probe succeeds.
C30_NotFoundDecides ==
    (requests # <<>> /\ requests[1].resp.err = "nil") =>
        LET resp == requests[1].resp
        IN /\ (\/ resp.status \in 200..299
               \/ resp.status = 404 /\ resp.body \notin RouteNotFoundBodies)
                 => /\ verify.pc = "returned"
                    /\ verify.ret = "nil"
                    /\ Len(requests) = 1
           /\ (resp.status = 404 /\ resp.body \in RouteNotFoundBodies)
                 => IF verify.pc = "returned"
                    THEN /\ Len(requests) = 2
                         /\ requests[2].probe = "graphql"
                         /\ verify.ret = "nil"
                               <=> FallbackSucceeded(requests[2].resp)
                    ELSE verify.pc = "graphql" /\ Len(requests) = 1

\* A token has been accepted on a 404 that names a missing app, and
\* another call has accepted its token by the fallback after a routing 404.
C30_Witness ==
    /\ verify.pc = "returned"
    /\ verify.ret = "nil"
    /\ PrimaryAnswered(404)
    /\ \/ requests[1].resp.body = "error: app not found" /\ Len(requests) = 1
       \/ requests[1].resp.body = "Not Found" /\ Len(requests) = 2

(***************************************************************************)
(* Properties of the liveness RPC calls.                                   *)
(***************************************************************************)
\* The value the caller expects in "result".
ExpectedResult(caller, result) ==
    IF caller = "getSlot" THEN result.kind = "number" /\ result.n >= 0
    ELSE result = JStr("ok")

\* The answers the call has to report as failures.
MustFail(caller, resp) ==
    \/ resp.err # "nil"
    \/ Non2xx(resp.status)
    \/ ~resp.valid
    \/ resp.error.kind \notin {"missing", "null"}
    \/ ~ExpectedResult(caller, resp.result)

\* C31: a liveness RPC call that was answered with a non-2xx status, a
\* non-null error member, or a result that is missing, null or not the
\* expected value (getHealth: "ok", getSlot: an unsigned integer) returns an
\* error.
C31_FailureNeverDefault ==
    rpc.pc = "done" /\ MustFail(rpc.caller, rpc.resp) => rpc.err # "nil"

(***************************************************************************)
(* Properties of the deploy and destroy commands and of config.State.     *)
(***************************************************************************)
\* Some, not all, of the three paths of a program_deploy section are set.
PartlySet(p) ==
    LET set == {f \in {"SOPath", "ProgramIDKeypairPath",
                       "UpgradeAuthorityPath"} : TrimSpace(p[f]) # ""}
    IN set # {} /\ Cardinality(set) < 3

\* provider.Deploy has not been called.
DeployNotCalled ==
    dpc = "idle" /\ runs = 0 /\ steps = <<>> /\ effects = {}

\* C32: an invalid configuration never reaches the remote steps. A deploy
\* command whose validator config fails validation never calls
\* provider.Deploy and ends with an error; a program_deploy section with
\* only some of its three paths set fails validation; and a Deploy called
\* with a nil config, a blank name or a blank region returns an error
\* without a remote step.
C32_InvalidConfigStopsEarly ==
    /\ cmd.name = "deploy" /\ Validate(ValidatorCfg(cmd.in)) # "nil"
          => /\ DeployNotCalled
             /\ cmd.pc \in {"start", "done"}
             /\ cmd.pc = "done" => cmd.err # "nil"
    /\ cmd.name = "deploy" /\ PartlySet(ValidatorCfg(cmd.in).ProgramDeploy)
          => Validate(ValidatorCfg(cmd.in)) # "nil"
    /\ dpc # "idle" /\ (cfg.Nil \/ IsBlank(cfg.Name) \/ IsBlank(cfg.Region))
          => /\ dpc \in {"call", "returned"}
             /\ steps = <<>> /\ effects = {}
             /\ dpc = "returned" => deployErr # "nil"

\* A deploy command has rejected a program_deploy section that sets the
\* binary and the program-id keypair and no upgrade authority.
C32_Witness ==
    /\ cmd.name = "deploy"
    /\ cmd.pc = "done"
    /\ PartlySet(ValidatorCfg(cmd.in).ProgramDeploy)
    /\ cmd.err = "invalid validator config: "
                 \o "program_deploy.upgrade_authority is required"
    /\ DeployNotCalled

(***************************************************************************)
(* Properties of the restart decision of ValidatorWatcher.checkAndRestart  *)
(* and of the scheduling of ValidatorWatcher.Run.                          *)
(***************************************************************************)

\* The step in which checkAndRestart calls provider.Restart.
RestartInvoked == tickLog.restart # "called" /\ tickLog'.restart = "called"

\* C33: provider.Restart is invoked only in a tick in which getSlot
\* succeeded, IsStuck returned true after that slot was recorded, no cooldown
\* is active, and auto-restart is enabled or the user answered y / yes; the
\* slot observed in that tick equals the slot recorded before it, and the
\* call is the first of its tick.
C33_RestartOnlyWhenStuck ==
    [][RestartInvoked =>
          /\ tickLog.rpc = "ok"
          /\ tickLog.stuck
          /\ IsStuckOf(entries, stuckThreshold).stuck
          /\ Len(recorded) >= 2
          /\ recorded[Len(recorded)].Slot = recorded[Len(recorded) - 1].Slot
          /\ ~tickLog.cooldown
          /\ lastRestartTime = ZeroTime \/ now - lastRestartTime >= restartCooldown
          /\ autoRestart \/ (tickLog.prompted /\ tickLog'.response \in {"y", "yes"})
          /\ tickLog.restart = "none"
          /\ UNCHANGED <<entries, recorded>>]_vars

\* C33 witness: the restart call is in progress after the user answered yes
\* to the prompt of a tick that found the validator stuck.
C33_Witness ==
    /\ wpc = "restart"
    /\ tickLog.restart = "called"
    /\ tickLog.prompted
    /\ tickLog.response = "yes"

\* The positions of Run inside checkAndRestart: the slot RPC, between
\* IsStuck and the cooldown test, the confirmation prompt, the restart call.
Checking == {"rpc", "stuck", "prompt", "restart"}

\* C34: the watcher runs one check at a time. A check begins only at the
\* select of Run, by taking the pending tick, and leaves no tick pending; a
\* tick that fires while a check is in progress only becomes (or stays) the
\* one pending tick and changes nothing of the check; a tick becomes pending
\* only when the ticker fires.
C34_OneCheckAtATime ==
    [][/\ (wpc' = "rpc" /\ tickLog'.rpc = "pending" /\ tickLog.rpc # "pending")
             => (wpc = "select" /\ tickPending /\ ~tickPending')
       /\ (wpc \in Checking /\ nextTick' # nextTick)
             => /\ tickPending'
                /\ UNCHANGED <<wpc, tickLog, callStart, entries, recorded,
                               restartCount, lastRestartTime, restartTimes>>
       /\ (tickPending' /\ ~tickPending)
             => (now = nextTick /\ nextTick' = nextTick + checkInterval)]_vars

\* C34 witness: the ticker has fired twice since the check in progress
\* began, and one tick is pending.
C34_Witness ==
    /\ wpc \in Checking
    /\ tickPending
    /\ nextTick - (2 * checkInterval) > callStart

(***************************************************************************)
(* Properties of the networking step and of the endpoints of Deploy.       *)
(***************************************************************************)

\* The GraphQL API answered the allocation of ipType with a decoded
\* response that holds an error which is not a conflict.
NonConflictError(ipType) ==
    /\ answers[ipType] # NotAsked
    /\ GraphQLRequestErr(answers[ipType]) = "nil"
    /\ \E i \in DOMAIN answers[ipType].errors :
          ~AlreadyAllocated(answers[ipType].errors[i])

\* C35: when the response to an IP allocation holds an error that is not an
\* "already has" / "already allocated" conflict, at any position of the
\* errors array, allocateIPAddress returns an error and the networking step
\* fails.
C35_NonConflictErrorFails ==
    \A ipType \in {"v4", "v6"} :
        NonConflictError(ipType) =>
            /\ answers.stage = "allocate ip graphql error"
            /\ dpc = "returned" => deployErr # "nil"

\* The hosts a Deploy of cfg may name: the default host of the Fly app, the
\* host found in the output of the Fly deploy, the domain Railway assigned.
DeployHosts ==
    {cfg.Name \o ".fly.dev"} \cup {ExtractFlyHost(o) : o \in FlyOutputs}
        \cup Domains

\* C36: every successful Deploy that is not a dry run, on Fly and on
\* Railway, returns a Deployment whose RPCURL and WebSocketURL are both
\* non-empty and name the same host, https://<host> and wss://<host>.
C36_EndpointsNameOneHost ==
    (dpc = "returned" /\ deployErr = "nil" /\ ~cfg.DryRun) =>
        /\ deployment.RPCURL # ""
        /\ deployment.WebSocketURL # ""
        /\ \E host \in DeployHosts \ {""} :
              /\ deployment.RPCURL = "https://" \o host
              /\ deployment.WebSocketURL = "wss://" \o host

\* C37: the deploy command writes the local state only after provider.Deploy
\* returned successfully: every step that changes the persisted state, but
\* for those of a destroy command, is the end of a deploy command whose
\* Deploy returned a nil error and was no dry run, and it stores the record
\* of the Deployment returned. After a Deploy
\* error (an unhealthy deployment included) and after a dry run the
\* persisted state is as it was.
C37_StateWrittenAfterDeploy ==
    [][(cmd.name # "destroy" /\ stateFile' # stateFile) =>
          /\ cmd.name = "deploy"
          /\ cmd.pc = "deploy"
          /\ cmd'.pc = "done"
          /\ dpc = "returned"
          /\ deployErr = "nil"
          /\ ~cfg.DryRun
          /\ deployment.Name \in DOMAIN stateFile'.Deployments
          /\ stateFile'.LastDeployment = deployment.Name
          /\ stateFile'.Deployments[deployment.Name].RPCURL = deployment.RPCURL
          /\ \A n \in DOMAIN stateFile.Deployments \ {deployment.Name} :
                /\ n \in DOMAIN stateFile'.Deployments
                /\ stateFile'.Deployments[n] = stateFile.Deployments[n]]_vars

\* C37 witness: a deploy command has ended without error and its deployment
\* is recorded in the state file, stamped with the time of the command,
\* beside the record of another app.
C37_Witness ==
    /\ cmd.name = "deploy"
    /\ cmd.pc = "done"
    /\ cmd.err = "nil"
    /\ deployErr = "nil"
    /\ ~cfg.DryRun
    /\ DOMAIN stateFile.Deployments = AppNames
    /\ stateFile.LastDeployment = deployment.Name
    /\ stateFile.Deployments[deployment.Name].UpdatedAt = now

\* C38: the destroy command removes the deployment's record from the local
\* state only after provider.Destroy returned success: every step of a
\* destroy command that changes the persisted state follows a Destroy that
\* returned nil, and removes the record of the name destroyed and no other.
\* When Destroy fails or the confirmation is declined the persisted state
\* is as it was.
C38_RecordRemovedAfterDestroy ==
    [][(cmd.name = "destroy" /\ stateFile' # stateFile) =>
          /\ cmd.pc = "destroyed"
          /\ cmd'.pc = "done"
          /\ cmd.err = "nil"
          /\ state = stateFile
          /\ TrimSpace(cmd.in.target) \in DOMAIN stateFile.Deployments
          /\ stateFile'.Deployments =
                Without(stateFile.Deployments, TrimSpace(cmd.in.target))]_vars

\* C38 witness: a destroy command that took the name from the local state
\* has ended without error after Destroy succeeded, the record is gone from
\* the state file and the record of the other app is left.
C38_Witness ==
    /\ cmd.name = "destroy"
    /\ cmd.pc = "done"
    /\ cmd.err = "nil"
    /\ "api" \in effects
    /\ stateCall.op = "RemoveDeployment"
    /\ DestroyName(cmd.in) = ""
    /\ cmd.in.target \in AppNames
    /\ cmd.in.target \notin DOMAIN stateFile.Deployments
    /\ DOMAIN stateFile.Deployments # {}
    /\ stateFile.LastDeployment \in DOMAIN stateFile.Deployments

\* The record kept for the record r last passed to UpsertDeployment.
StoredFor(r) == state.Deployments[TrimSpace(r.Name)]

\* C39: after any sequence of UpsertDeployment and RemoveDeployment calls
\* from the empty state, LastDeployment is empty if and only if Deployments
\* is empty, and otherwise names a key of Deployments; immediately after
\* UpsertDeployment(r), ResolveDeployment("") returns the record stored for
\* r, which is r with its time stamps.
C39_LastDeploymentNamesARecord ==
    /\ state.LastDeployment = "" <=> DOMAIN state.Deployments = {}
    /\ state.LastDeployment # ""
          => state.LastDeployment \in DOMAIN state.Deployments
    /\ (stateCall.op = "UpsertDeployment" /\ stateCall.err = "nil")
          => /\ TrimSpace(stateCall.rec.Name) \in DOMAIN state.Deployments
             /\ ResolveDeployment(state, "") =
                   [rec |-> StoredFor(stateCall.rec), err |-> "nil"]
             /\ StoredFor(stateCall.rec) =
                   [stateCall.rec EXCEPT
                       !.CreatedAt = StoredFor(stateCall.rec).CreatedAt,
                       !.UpdatedAt = StoredFor(stateCall.rec).UpdatedAt]
             /\ StoredFor(stateCall.rec).UpdatedAt \in 0..now
             /\ StoredFor(stateCall.rec).CreatedAt
                   \in 0..StoredFor(stateCall.rec).UpdatedAt

\* C39 witness: UpsertDeployment has just updated, under its trimmed name,
\* a record created earlier, beside the record of another app.
C39_Witness ==
    /\ cmd.name = "none"
    /\ stateCall.op = "UpsertDeployment"
    /\ stateCall.err = "nil"
    /\ stateCall.rec.Name = Padded("sol-cloud-1a2b3c4d")
    /\ DOMAIN state.Deployments = AppNames
    /\ state.LastDeployment = "sol-cloud-1a2b3c4d"
    /\ StoredFor(stateCall.rec).CreatedAt < StoredFor(stateCall.rec).UpdatedAt

(***************************************************************************)
(* Properties of the slot history across a restart.                        *)
(***************************************************************************)

\* The first-observed timestamp IsStuck reports for a history es it finds
\* stuck.
FirstObservedAt(es) == IsStuckOf(es, stuckThreshold).info[1].FirstObservedAt

\* The step in which provider.Restart returns nil.
RestartSucceeds == wpc = "restart" /\ tickLog'.restart = "ok"

\* A poll, after a successful restart and with no cooldown active, that
\* returns the slot the history is stuck on, the run having been first
\* observed before the restart.
PollAfterRestart ==
    /\ wpc = "rpc"
    /\ tickLog'.rpc = "ok"
    /\ lastRestartTime # ZeroTime
    /\ now - lastRestartTime >= restartCooldown
    /\ IsStuckOf(entries, stuckThreshold).stuck
    /\ FirstObservedAt(entries) < lastRestartTime
    /\ entries'[Len(entries')].Slot = GetLatestSlotOf(entries)

RunFillsHistory(es) == Len(es) = MaxEntries /\ RunStart(es) = 1

====
